---- MODULE Spec2Model ----
(***************************************************************************)
(* A model of the forensic analysis core of OPENCHAIN-IR:                  *)
(*   analyzer.py           detect_patterns, calculate_risk_score,          *)
(*                         calculate_confidence_score, analyze_live_eth    *)
(*   advanced_analysis.py  AddressClustering, AnomalyDetector              *)
(* The analyses are functions of a transaction list and a root address.    *)
(* The state holds the arguments of one call (drawn by Init), the name of  *)
(* the operation that was applied and what it returned or that it raised.  *)
(*                                                                         *)
(* Amounts.  The code divides the raw value (wei) by 1e18.  The model      *)
(* counts raw values in units of 10^12 wei, so that one ETH is EthUnits    *)
(* = 10^6 units and a normalized amount rounded to 6 decimals is the raw   *)
(* value itself.  A record may carry a field below, a few wei to take off  *)
(* the amount, where the rounding of float() matters.                      *)
(*                                                                         *)
(* Fields.  An address field is a string, PyNone (the key is present and   *)
(* holds None) or Absent (the key is missing).  A numeric field (value,    *)
(* timeStamp) is a natural number, or one of NoneNum, BadNum (a string     *)
(* that float() and int() reject), AbsentNum (the key is missing).         *)
(***************************************************************************)
EXTENDS Integers, Sequences, FiniteSets, TLC

VARIABLES
    txlist,     \* the transaction list passed to the analysis
    root,       \* the root / main address passed to the analysis
    order,      \* the order in which a set of addresses is enumerated
    patterns,   \* the PatternSet passed to the scoring functions
    summary,    \* the summary passed to the scoring functions
    entities,   \* the module-level table KNOWN_ENTITIES of analyzer.py
    dfs,        \* the call stack and the locals of a running find_paths
    monitor,    \* the RealTimeMonitor object and the chain it polls
    op,         \* the operation applied ("none" before the call)
    out         \* what the operation returned

vars == <<txlist, root, order, patterns, summary, entities, dfs, monitor, op, out>>

----------------------------------------------------------------------------
(* Values of fields *)

PyNone == "<None>"
Absent == "<absent>"
NoneNum == -1
BadNum == -2
AbsentNum == -3

EthUnits == 1000000
FarFuture == 2147483647

\* str.lower() on the addresses of the model: "A" and "B" are the spellings
\* of "a" and "b" that differ in letter case only, and so for the others.
Lower(s) ==
    CASE s = "A" -> "a"
      [] s = "B" -> "b"
      [] s = "V" -> "v"
      [] s = "T" -> "t"
      [] s = "J" -> "j"
      [] s = "P" -> "p"
      [] s = "N" -> "n"
      [] OTHER -> s

\* lines 7-34: the table of known addresses as the module defines it. "V"
\* stands for the first of its keys, a mixed-case address.
KNOWN_ENTITIES ==
    "V" :> [name |-> "Vitalik Buterin", type |-> "Individual", risk |-> "LOW"]

\* tx.get(field, default) for an address field
GetAddr(tx, field, default) ==
    IF tx[field] = Absent THEN default ELSE tx[field]

\* tx.get(field, 0) for a numeric field
GetNum(tx, field) ==
    IF tx[field] = AbsentNum THEN 0 ELSE tx[field]

\* float(x) / int(x) succeeds
Parses(x) == x >= 0

\* tx.get(field, "").lower() raises AttributeError on None
LowerRaises(tx, field) == tx[field] = PyNone

\* tx.get(field, "").lower(), where it does not raise
LowerOf(tx, field) == Lower(GetAddr(tx, field, ""))

Min(a, b) == IF a <= b THEN a ELSE b
Max(a, b) == IF a >= b THEN a ELSE b

Range(s) == {s[i] : i \in 1..Len(s)}

RECURSIVE SumSeq(_)
SumSeq(s) == IF s = <<>> THEN 0 ELSE Head(s) + SumSeq(Tail(s))

RECURSIVE MaxSeq(_)
MaxSeq(s) == IF Len(s) = 1 THEN s[1] ELSE Max(Head(s), MaxSeq(Tail(s)))

\* [f(x) for x in s if keep(x)], given vals[i] = f(s[i]) and keep[i] = keep(s[i])
Comprehend(vals, keep) ==
    LET kept == SelectSeq([i \in 1..Len(keep) |-> i], LAMBDA i : keep[i])
    IN  [j \in 1..Len(kept) |-> vals[kept[j]]]

\* The insertion of index i into idx, a list of earlier indices in
\* ascending order of key: after every index whose key is not larger.
RECURSIVE InsertIndex(_, _, _)
InsertIndex(i, idx, keys) ==
    IF idx = <<>> THEN <<i>>
    ELSE IF keys[i] < keys[idx[Len(idx)]]
         THEN Append(InsertIndex(i, SubSeq(idx, 1, Len(idx) - 1), keys), idx[Len(idx)])
         ELSE Append(idx, i)

\* the indices 1..n in ascending order of key, equal keys in index order
RECURSIVE SortedIndices(_, _)
SortedIndices(n, keys) ==
    IF n = 0 THEN <<>> ELSE InsertIndex(n, SortedIndices(n - 1, keys), keys)

\* sorted(s, key=key): a stable sort, ascending in key, given
\* keys[i] = key(s[i])
SortedByKey(s, keys) ==
    LET idx == SortedIndices(Len(s), keys)
    IN  [r \in 1..Len(s) |-> s[idx[r]]]

----------------------------------------------------------------------------
(* analyzer.py: detect_patterns *)

EmptyPatterns ==
    [rapid_succession |-> FALSE,
     round_amounts |-> <<>>,
     suspicious_destinations |-> <<>>,
     dust_transactions |-> <<>>,
     high_frequency_wallet |-> FALSE,
     mixing_service_suspicion |-> FALSE,
     consolidation_pattern |-> FALSE,
     layering_pattern |-> FALSE]

\* float(tx.get("timeStamp", 0))
TimeOf(tx) == GetNum(tx, "timeStamp")

\* rapid_count > len(time_diffs) * 0.3 (the product is exact in floating
\* point whenever it is an integer, so the comparison is the rational one)
ExceedsShare(count, total) == 10 * count > 3 * total

\* a gap of exactly 60 seconds counts as well
IsRapidGapInclusive(diff) == 0 < diff /\ diff <= 60

\* line 103: 0 < diff < 60
IsRapidGap(diff) == 0 < diff /\ diff < 60

\* lines 98-105
RapidSuccession(txs) ==
    LET times == [i \in 1..Len(txs) |-> TimeOf(txs[i])]
        timestamps == SortedByKey(times, times)
        time_diffs == [i \in 1..(Len(timestamps) - 1) |->
                          timestamps[i + 1] - timestamps[i]]
        rapid_count == Cardinality({i \in 1..Len(time_diffs) :
                          IsRapidGap(time_diffs[i])})
    IN  /\ Len(timestamps) > 2
        /\ ExceedsShare(rapid_count, Len(time_diffs))

\* lines 108-114: val > 0 and val == int(val); a value float() rejects is
\* skipped by the bare except
IsRound(tx) ==
    LET v == GetNum(tx, "value")
    IN  Parses(v) /\ v > 0 /\ v % EthUnits = 0

\* A record may give, next to its value in units of 10^12 wei, a number of
\* wei to take off: the raw amount is value * 10^12 - below wei.
WeiBelow(tx) == IF "below" \in DOMAIN tx THEN tx.below ELSE 0

\* the largest amount, in units, below 2^53 wei: float() is exact up to it
DoubleExactUnits == 9007

\* float(units * 10^12 - below), as the number of wei below units * 10^12.
\* Up to 2^53 wei the conversion is exact. From there to 2^54 wei
\* (18014 units) the doubles are 2 wei apart and the conversion rounds to
\* the nearest, ties to the even significand; units * 10^12 has an even
\* significand there, so an odd distance rounds to the multiple of 4.
FloatBelow(units, below) ==
    IF units <= DoubleExactUnits THEN below
    ELSE CASE below % 4 = 1 -> below - 1
           [] below % 4 = 3 -> below + 1
           [] OTHER -> below

\* lines 117-123: 0 < val < 0.01, val = float(value) / 1e18. The division
\* is monotone and 1e16 / 1e18 == 0.01, so val < 0.01 iff float(value) is
\* below 10^16 wei.
IsDust(tx) ==
    LET v == GetNum(tx, "value")
        b == FloatBelow(v, WeiBelow(tx))
    IN  /\ Parses(v)
        /\ 0 < v
        /\ 100 * v < EthUnits \/ (100 * v = EthUnits /\ b > 0)

ValueOf(tx) == GetNum(tx, "value")

IsIncoming(tx, root_address) == LowerOf(tx, "to") = Lower(root_address)
IsOutgoing(tx, root_address) == LowerOf(tx, "from") = Lower(root_address)

\* lines 136-145
Consolidation(txs, root_address) ==
    LET vals == [i \in 1..Len(txs) |-> ValueOf(txs[i])]
        input_amounts == Comprehend(vals,
                            [i \in 1..Len(txs) |-> IsIncoming(txs[i], root_address)])
        output_amounts == Comprehend(vals,
                            [i \in 1..Len(txs) |-> IsOutgoing(txs[i], root_address)])
    IN  /\ input_amounts # <<>>
        /\ output_amounts # <<>>
        /\ SumSeq(input_amounts) > 0
        \* max_output > avg_input * 10, avg_input = sum / len
        /\ MaxSeq(output_amounts) * Len(input_amounts) > SumSeq(input_amounts) * 10

\* tx.get(field): None when the key is missing
RawAddr(tx, field) == GetAddr(tx, field, PyNone)

\* line 148: the addresses are compared as they are written
LayeringKey(tx, field) == RawAddr(tx, field)

Layering(txs) ==
    /\ Len(txs) > 20
    /\ Cardinality({LayeringKey(txs[i], "from") : i \in 1..Len(txs)})
         > Cardinality({LayeringKey(txs[i], "to") : i \in 1..Len(txs)})

\* detect_patterns raises: float() of an unparsable timeStamp in the sort key
\* (line 98), .lower() of a None address (lines 130-131), float() of an
\* unparsable value of a transaction to or from the root (lines 136-139)
DetectPatternsRaises(txs, root_address) ==
    /\ txs # <<>>
    /\ \/ \E i \in 1..Len(txs) : ~Parses(TimeOf(txs[i]))
       \/ \E i \in 1..Len(txs) : LowerRaises(txs[i], "to") \/ LowerRaises(txs[i], "from")
       \/ \E i \in 1..Len(txs) :
             /\ IsIncoming(txs[i], root_address) \/ IsOutgoing(txs[i], root_address)
             /\ ~Parses(ValueOf(txs[i]))

\* the PatternSet detect_patterns returns when it does not raise
DetectedPatterns(txs, root_address) ==
    IF txs = <<>> THEN EmptyPatterns
    ELSE
    LET incoming == Cardinality({i \in 1..Len(txs) : IsIncoming(txs[i], root_address)})
        outgoing == Cardinality({i \in 1..Len(txs) : IsOutgoing(txs[i], root_address)})
        vals == [i \in 1..Len(txs) |-> ValueOf(txs[i])]
    IN  [rapid_succession |-> RapidSuccession(txs),
         round_amounts |-> Comprehend(vals, [i \in 1..Len(txs) |-> IsRound(txs[i])]),
         suspicious_destinations |-> <<>>,
         dust_transactions |-> Comprehend(vals, [i \in 1..Len(txs) |-> IsDust(txs[i])]),
         high_frequency_wallet |-> Len(txs) > 50,
         mixing_service_suspicion |-> incoming > outgoing * 2,
         consolidation_pattern |-> Consolidation(txs, root_address),
         layering_pattern |-> Layering(txs)]

detect_patterns(txs, root_address) ==
    IF DetectPatternsRaises(txs, root_address)
    THEN [raised |-> TRUE, patterns |-> EmptyPatterns]
    ELSE [raised |-> FALSE, patterns |-> DetectedPatterns(txs, root_address)]

----------------------------------------------------------------------------
(* analyzer.py: calculate_risk_score, calculate_confidence_score *)

Points(cond, n) == IF cond THEN n ELSE 0
Factor(cond, s) == IF cond THEN <<s>> ELSE <<>>

\* the cap is left out
CapScoreMissing(s) == s

\* line 216
CapScore(s) == Min(s, 100)

\* the comparison is turned around
RoundConditionInverted(p, s) ==
    s.total_transactions > 0
    /\ ExceedsShare(s.total_transactions, Len(p.round_amounts))

\* line 211
RoundCondition(p, s) ==
    s.total_transactions > 0
    /\ ExceedsShare(Len(p.round_amounts), s.total_transactions)

\* >= in place of >
DustConditionAtLeast(p) == Len(p.dust_transactions) >= 5

\* line 206
DustCondition(p) == Len(p.dust_transactions) > 5

calculate_risk_score(p, s) ==
    LET risk_score ==
            Points(p.rapid_succession, 20)
          + Points(p.high_frequency_wallet, 15)
          + Points(p.mixing_service_suspicion, 25)
          + Points(p.consolidation_pattern, 20)
          + Points(p.layering_pattern, 18)
          + Points(DustCondition(p), 15)
          + Points(RoundCondition(p, s), 10)
        risk_factors ==
            Factor(p.rapid_succession, "Rapid succession of transactions")
         \o Factor(p.high_frequency_wallet, "High frequency transaction wallet")
         \o Factor(p.mixing_service_suspicion, "Possible mixing service behavior")
         \o Factor(p.consolidation_pattern, "Consolidation pattern detected")
         \o Factor(p.layering_pattern, "Layering pattern detected (AML concern)")
         \o Factor(DustCondition(p), "Multiple dust transactions (potential obfuscation)")
         \o Factor(RoundCondition(p, s), "High proportion of round amount transactions")
    IN  [risk_score |-> CapScore(risk_score), risk_factors |-> risk_factors]

\* sum(1 for v in patterns.values() if isinstance(v, bool) and v)
\* every truthy entry counted, the non-empty lists included
PatternCountTruthy(p) ==
    Points(p.rapid_succession, 1) + Points(p.high_frequency_wallet, 1)
    + Points(p.mixing_service_suspicion, 1) + Points(p.consolidation_pattern, 1)
    + Points(p.layering_pattern, 1)
    + Points(p.round_amounts # <<>>, 1) + Points(p.dust_transactions # <<>>, 1)
    + Points(p.suspicious_destinations # <<>>, 1)

PatternCount(p) ==
    Points(p.rapid_succession, 1) + Points(p.high_frequency_wallet, 1)
    + Points(p.mixing_service_suspicion, 1) + Points(p.consolidation_pattern, 1)
    + Points(p.layering_pattern, 1)

calculate_confidence_score(s, p) ==
    LET unique_parties == s.unique_senders + s.unique_receivers
        confidence ==
            50
          + (IF s.total_transactions > 100 THEN 20
             ELSE IF s.total_transactions > 50 THEN 10 ELSE 0)
          + (IF unique_parties > 30 THEN 15
             ELSE IF unique_parties > 15 THEN 8 ELSE 0)
          + Min(PatternCount(p) * 3, 20)
    IN  Min(confidence, 100)

----------------------------------------------------------------------------
(* The scoring functions on their own: Init draws a PatternSet and a      *)
(* summary, the actions apply calculate_risk_score and                    *)
(* calculate_confidence_score.                                            *)

MaxDust == 6
MaxRound == 3
MaxTotal == 3
MaxRoundMono == 1
MaxTotalMono == 1

NoOut == <<>>

\* no find_paths call is running
NoDfs ==
    [state |-> "idle", stack |-> <<>>, visited |-> {}, circular |-> <<>>,
     expanded |-> <<>>, closers |-> <<>>, aborted |-> 0, max_depth |-> 0,
     graph |-> {}, start |-> ""]

\* no RealTimeMonitor has been constructed
NoMonitor == <<>>

\* a list of n amounts
Fill(n, amount) == [i \in 1..n |-> amount]

PatternInputsOver(dustLengths, maxRound) ==
    {[rapid_succession |-> f[1],
      round_amounts |-> Fill(r, EthUnits),
      suspicious_destinations |-> <<>>,
      dust_transactions |-> Fill(d, 1000),
      high_frequency_wallet |-> f[2],
      mixing_service_suspicion |-> f[3],
      consolidation_pattern |-> f[4],
      layering_pattern |-> f[5]] :
        f \in [1..5 -> BOOLEAN], r \in 0..maxRound, d \in dustLengths}

PatternInputs == PatternInputsOver(0..MaxDust, MaxRound)

\* for the pairs of calls: dust lists on both sides of the threshold of 5
PatternInputsMono == PatternInputsOver({0, 5, 6}, MaxRoundMono)

\* transaction and party counts on both sides of every threshold of
\* calculate_confidence_score
SummaryInputs ==
    [total_transactions : (0..MaxTotal) \cup {10, 50, 51, 100, 101},
     unique_senders : {0, 15, 16},
     unique_receivers : {0, 15}]

SummaryInputsMono ==
    [total_transactions : 0..MaxTotalMono,
     unique_senders : {0},
     unique_receivers : {0}]

InitScore ==
    /\ patterns \in PatternInputs
    /\ summary \in SummaryInputs
    /\ txlist = <<>>
    /\ root = ""
    /\ order = <<>>
    /\ op = "none"
    /\ out = NoOut
    /\ entities = KNOWN_ENTITIES
    /\ dfs = NoDfs
    /\ monitor = NoMonitor

CalculateRiskScore ==
    /\ op = "none"
    /\ op' = "calculate_risk_score"
    /\ out' = calculate_risk_score(patterns, summary)
    /\ UNCHANGED <<txlist, root, order, patterns, summary, entities, dfs, monitor>>

CalculateConfidenceScore ==
    /\ op = "none"
    /\ op' = "calculate_confidence_score"
    /\ out' = [confidence_score |-> calculate_confidence_score(summary, patterns)]
    /\ UNCHANGED <<txlist, root, order, patterns, summary, entities, dfs, monitor>>

NextScore == CalculateRiskScore \/ CalculateConfidenceScore

SpecScore == InitScore /\ [][NextScore]_vars

\* Two calls of calculate_risk_score, the second on any input
InitMono ==
    /\ patterns \in PatternInputsMono
    /\ summary \in SummaryInputsMono
    /\ txlist = <<>>
    /\ root = ""
    /\ order = <<>>
    /\ op = "none"
    /\ out = NoOut
    /\ entities = KNOWN_ENTITIES
    /\ dfs = NoDfs
    /\ monitor = NoMonitor

CalculateRiskScoreAgain ==
    /\ op = "calculate_risk_score"
    /\ patterns' \in PatternInputsMono
    /\ summary' \in SummaryInputsMono
    /\ op' = "calculate_risk_score_again"
    /\ out' = calculate_risk_score(patterns', summary')
    /\ UNCHANGED <<txlist, root, order, entities, dfs, monitor>>

NextMono == CalculateRiskScore \/ CalculateRiskScoreAgain

SpecMono == InitMono /\ [][NextMono]_vars

----------------------------------------------------------------------------
(* Claims on the scoring functions *)

\* C1: the risk score calculate_risk_score returns and the confidence score
\* calculate_confidence_score returns lie between 0 and 100, for every input.
C1_ScoreBounds ==
    /\ op = "calculate_risk_score" =>
          out.risk_score >= 0 /\ out.risk_score <= 100
    /\ op = "calculate_confidence_score" =>
          out.confidence_score >= 0 /\ out.confidence_score <= 100

\* all seven conditions hold: the points add up to 123 and the cap applies
C1_Witness ==
    /\ op = "calculate_risk_score"
    /\ Len(out.risk_factors) = 7
    /\ out.risk_score = 100

\* The point table of the specification, evaluated on the current input
C2_Rows ==
    << [hit |-> patterns.rapid_succession, points |-> 20,
        text |-> "Rapid succession of transactions"],
       [hit |-> patterns.high_frequency_wallet, points |-> 15,
        text |-> "High frequency transaction wallet"],
       [hit |-> patterns.mixing_service_suspicion, points |-> 25,
        text |-> "Possible mixing service behavior"],
       [hit |-> patterns.consolidation_pattern, points |-> 20,
        text |-> "Consolidation pattern detected"],
       [hit |-> patterns.layering_pattern, points |-> 18,
        text |-> "Layering pattern detected (AML concern)"],
       [hit |-> Len(patterns.dust_transactions) > 5, points |-> 15,
        text |-> "Multiple dust transactions (potential obfuscation)"],
       [hit |-> /\ summary.total_transactions > 0
                /\ 10 * Len(patterns.round_amounts) > 3 * summary.total_transactions,
        points |-> 10,
        text |-> "High proportion of round amount transactions"] >>

C2_Hits == SelectSeq(C2_Rows, LAMBDA row : row.hit)

\* C2: the score is min(100, sum of the points of the rows that hold) and
\* risk_factors lists the text of exactly those rows, in table order.
C2_ScoreTable ==
    op = "calculate_risk_score" =>
        /\ out.risk_score =
              Min(100, SumSeq([i \in 1..Len(C2_Hits) |-> C2_Hits[i].points]))
        /\ out.risk_factors = [i \in 1..Len(C2_Hits) |-> C2_Hits[i].text]

\* some rows hold and some do not, and the dust and round rows are among
\* those that hold
C2_Witness ==
    /\ op = "calculate_risk_score"
    /\ out.risk_score = 43
    /\ out.risk_factors =
         << "Layering pattern detected (AML concern)",
            "Multiple dust transactions (potential obfuscation)",
            "High proportion of round amount transactions" >>

\* the set of scoring conditions an input triggers
C3_Triggered(p, s) ==
    {c \in {"rapid_succession", "high_frequency_wallet", "mixing_service_suspicion",
            "consolidation_pattern", "layering_pattern"} : p[c]}
    \cup (IF Len(p.dust_transactions) > 5 THEN {"dust"} ELSE {})
    \cup (IF s.total_transactions > 0
             /\ 10 * Len(p.round_amounts) > 3 * s.total_transactions
          THEN {"round"} ELSE {})

\* C3: when a second input triggers every condition the first one triggers,
\* its score is at least the first score and at most 100.
C3_Monotone ==
    [][(/\ op = "calculate_risk_score"
        /\ op' = "calculate_risk_score_again"
        /\ C3_Triggered(patterns, summary) \subseteq C3_Triggered(patterns', summary'))
       => (out'.risk_score >= out.risk_score /\ out'.risk_score <= 100)]_vars

\* a second call whose input triggers all seven conditions, so every
\* condition of the first call is triggered again, and the cap applies
C3_Witness ==
    /\ op = "calculate_risk_score_again"
    /\ Cardinality(C3_Triggered(patterns, summary)) = 7
    /\ out.risk_score = 100

----------------------------------------------------------------------------
(* analyzer.py: analyze_live_eth *)

\* lines 247-250: an unparsable timeStamp counts as 0.0
SafeTime(tx) == IF Parses(TimeOf(tx)) THEN TimeOf(tx) ELSE 0

\* lines 260-263: an unparsable value counts as 0.0
SafeValue(tx) == IF Parses(ValueOf(tx)) THEN ValueOf(tx) ELSE 0

\* line 252
InWindow(tx, start_ts, end_ts) == start_ts <= SafeTime(tx) /\ SafeTime(tx) <= end_ts

\* lines 267-268: frm[:10] and to[:10] raise TypeError on None
LabelRaises(tx) == RawAddr(tx, "from") = PyNone \/ RawAddr(tx, "to") = PyNone

\* line 272
\* every transfer with a recipient counts
CountsInAnyRecipient(tx, root_address) == RawAddr(tx, "to") # ""

\* line 272: to and to.lower() == root_address.lower()
CountsIn(tx, root_address) ==
    RawAddr(tx, "to") # "" /\ Lower(RawAddr(tx, "to")) = Lower(root_address)

\* line 276: the elif branch
CountsOut(tx, root_address) ==
    /\ ~CountsIn(tx, root_address)
    /\ RawAddr(tx, "from") # "" /\ Lower(RawAddr(tx, "from")) = Lower(root_address)

\* the keys of a dict filled in the order of s, in insertion order
RECURSIVE FirstSeen(_)
FirstSeen(s) ==
    IF s = <<>> THEN <<>>
    ELSE LET init == FirstSeen(SubSeq(s, 1, Len(s) - 1))
         IN  IF s[Len(s)] \in Range(init) THEN init ELSE Append(init, s[Len(s)])

\* lines 275/279 and 289-290: cumulative value per counterparty, sorted by
\* value descending (stable), first five
\* counts[i]: the branch is taken for txs[i]; party[i]: its counterparty
AddressTotals(txs, counts, party) ==
    LET vals == [i \in 1..Len(txs) |-> SafeValue(txs[i])]
        keys == FirstSeen(Comprehend(party, counts))
        total(k) == SumSeq(Comprehend(vals,
                        [i \in 1..Len(txs) |-> counts[i] /\ party[i] = k]))
    IN  [i \in 1..Len(keys) |-> <<keys[i], total(keys[i])>>]

\* lines 289-290
\* the smallest cumulative value first
RankKeyAscending(item) == item[2]

\* lines 289-290: key=lambda x: x[1], reverse=True; the stable sort keeps
\* equal items in their order
RankKey(item) == 0 - item[2]

TopByValue(txs, counts, party) ==
    LET items == AddressTotals(txs, counts, party)
        ranked == SortedByKey(items, [i \in 1..Len(items) |-> RankKey(items[i])])
    IN  SubSeq(ranked, 1, Min(5, Len(ranked)))

\* lines 49-67: a known address gets its entry of the table, the dict
\* object itself; any other address a new dict by its traffic
identify_entity_type(address, transactions) ==
    IF address \in DOMAIN entities THEN entities[address]
    ELSE
    LET n == Len(transactions)
        incoming == Cardinality({i \in 1..n : IsIncoming(transactions[i], address)})
        outgoing == Cardinality({i \in 1..n : IsOutgoing(transactions[i], address)})
    IN  IF incoming > outgoing * 5
        THEN [name |-> "Possible Exchange/Aggregator", type |-> "Exchange",
              risk |-> "LOW", confidence |-> "MEDIUM"]
        ELSE IF incoming > outgoing * 2
        THEN [name |-> "Possible Mixer Service", type |-> "Mixer",
              risk |-> "HIGH", confidence |-> "MEDIUM"]
        ELSE IF incoming = 0 /\ outgoing > 20
        THEN [name |-> "Distribution Wallet", type |-> "Smart_Contract",
              risk |-> "MEDIUM", confidence |-> "MEDIUM"]
        ELSE [name |-> "Unknown Address", type |-> "Unknown",
              risk |-> "UNKNOWN", confidence |-> "LOW"]

\* lines 281-282: the outgoing transfers to a known address
CashOutPoints(txs, counts_out) ==
    LET known == [i \in 1..Len(txs) |->
                    counts_out[i] /\ RawAddr(txs[i], "to") \in DOMAIN entities]
        hits == SelectSeq([i \in 1..Len(txs) |-> i], LAMBDA i : known[i])
    IN  [k \in 1..Len(hits) |->
            <<SafeValue(txs[hits[k]]), entities[RawAddr(txs[hits[k]], "to")]>>]

\* round(x, 4) of an amount: to the nearest multiple of 100 units
Round4(x) == ((x + 50) \div 100) * 100

\* len(set(tx.get(field) for tx in filtered_txs if tx.get(field)))
UniqueParties(txs, field) ==
    Cardinality({RawAddr(txs[i], field) : i \in 1..Len(txs)} \ {PyNone, ""})

\* the value the last of the transfers of pair e carries; pairs[i] and
\* vals[i] are the pair and the value of the i-th transfer
LastValue(pairs, vals, e) ==
    vals[CHOOSE i \in 1..Len(pairs) :
            pairs[i] = e /\ \A j \in (i + 1)..Len(pairs) : pairs[j] # e]

\* lines 231, 270: G.add_edge(frm, to, value=val, ...) for every transfer in
\* the window; add_edge on an edge the graph has sets its value anew
FlowGraph(filtered_txs) ==
    LET pairs == [i \in 1..Len(filtered_txs) |->
                    <<RawAddr(filtered_txs[i], "from"), RawAddr(filtered_txs[i], "to")>>]
        vals == [i \in 1..Len(filtered_txs) |-> SafeValue(filtered_txs[i])]
    IN  [e \in Range(pairs) |-> LastValue(pairs, vals, e)]

AnalyzeRaises(txs, root_address, start_ts, end_ts) ==
    LET filtered_txs == SelectSeq(txs, LAMBDA tx : InWindow(tx, start_ts, end_ts))
    IN  \/ \E i \in 1..Len(filtered_txs) : LabelRaises(filtered_txs[i])
        \/ DetectPatternsRaises(filtered_txs, root_address)

AnalyzeSummary(txs, root_address, start_ts, end_ts, chain_id, chain_name) ==
    LET filtered_txs == SelectSeq(txs, LAMBDA tx : InWindow(tx, start_ts, end_ts))
        n == Len(filtered_txs)
        vals == [i \in 1..n |-> SafeValue(filtered_txs[i])]
        counts_in == [i \in 1..n |-> CountsIn(filtered_txs[i], root_address)]
        counts_out == [i \in 1..n |-> CountsOut(filtered_txs[i], root_address)]
        total_in == SumSeq(Comprehend(vals, counts_in))
        total_out == SumSeq(Comprehend(vals, counts_out))
        pats == DetectedPatterns(filtered_txs, root_address)
        risk == calculate_risk_score(pats, [total_transactions |-> Len(filtered_txs)])
        temp_summary ==
            [total_transactions |-> Len(filtered_txs),
             unique_senders |-> UniqueParties(filtered_txs, "from"),
             unique_receivers |-> UniqueParties(filtered_txs, "to")]
        sorted_values == SortedByKey(vals, vals)
    IN  [total_transactions |-> Len(filtered_txs),
         total_volume_in |-> Round4(total_in),
         total_volume_out |-> Round4(total_out),
         net_flow |-> Round4(total_in - total_out),
         unique_senders |-> temp_summary.unique_senders,
         unique_receivers |-> temp_summary.unique_receivers,
         \* lines 305-307 and 319-321
         avg_transaction_value |->
            IF n = 0 THEN 0 ELSE Round4(SumSeq(vals) \div n),
         median_transaction_value |->
            IF n = 0 THEN 0 ELSE Round4(sorted_values[(n \div 2) + 1]),
         max_transaction_value |-> IF n = 0 THEN 0 ELSE Round4(MaxSeq(vals)),
         cash_out_points |-> CashOutPoints(filtered_txs, counts_out),
         entity_info |-> identify_entity_type(root_address, filtered_txs),
         incoming_addresses |-> AddressTotals(filtered_txs, counts_in,
                            [i \in 1..n |-> RawAddr(filtered_txs[i], "from")]),
         outgoing_addresses |-> AddressTotals(filtered_txs, counts_out,
                            [i \in 1..n |-> RawAddr(filtered_txs[i], "to")]),
         \* lines 332-333, for a call without dates
         start_date |-> "All Time",
         end_date |-> "Present",
         top_victims |-> TopByValue(filtered_txs, counts_in,
                            [i \in 1..n |-> RawAddr(filtered_txs[i], "from")]),
         top_suspects |-> TopByValue(filtered_txs, counts_out,
                            [i \in 1..n |-> RawAddr(filtered_txs[i], "to")]),
         patterns |-> pats,
         risk_score |-> risk.risk_score,
         risk_factors |-> risk.risk_factors,
         confidence_score |-> calculate_confidence_score(temp_summary, pats),
         chain_id |-> chain_id,
         chain_name |-> chain_name]

analyze_live_eth(txs, root_address, start_ts, end_ts, chain_id, chain_name) ==
    IF AnalyzeRaises(txs, root_address, start_ts, end_ts)
    THEN [raised |-> TRUE]
    ELSE [raised |-> FALSE,
          summary |-> AnalyzeSummary(txs, root_address, start_ts, end_ts,
                                     chain_id, chain_name),
          G |-> FlowGraph(SelectSeq(txs, LAMBDA tx : InWindow(tx, start_ts, end_ts))),
          source |-> "Live Blockchain Data"]

----------------------------------------------------------------------------
(* advanced_analysis.py: AddressClustering *)
(* Risk scores are floats between 0 and 1 in the code; the model holds     *)
(* them in hundredths (0.6 is 60).                                         *)

\* The elements of a set in the order a loop over it (or list(set)) meets
\* them: Python fixes no order for a set of strings, ord is the order of
\* this run.
Enumerate(set, ord) == SelectSeq(ord, LAMBDA x : x \in set)

\* lines 70-79: the graph as the set of its directed (node, neighbour) pairs
BuildGraphRaises(txs) ==
    \E i \in 1..Len(txs) : LowerRaises(txs[i], "from") \/ LowerRaises(txs[i], "to")

_build_address_graph(txs) ==
    LET linked == {i \in 1..Len(txs) :
                     LowerOf(txs[i], "from") # "" /\ LowerOf(txs[i], "to") # ""}
    IN  {<<LowerOf(txs[i], "from"), LowerOf(txs[i], "to")>> : i \in linked}
        \cup {<<LowerOf(txs[i], "to"), LowerOf(txs[i], "from")>> : i \in linked}

\* address in graph
InGraph(graph, node) == \E e \in graph : e[1] = node

\* graph.get(node, set())
Neighbors(graph, node) == {e[2] : e \in {d \in graph : d[1] = node}}

\* lines 82-100
_find_frequent_counterparties(graph, address, ord) ==
    LET addr == Lower(address)
        counterparties == Enumerate(Neighbors(graph, addr), ord)
    IN  IF ~InGraph(graph, addr) THEN <<>>
        ELSE [i \in 1..Min(10, Len(counterparties)) |->
                [address |-> counterparties[i],
                 connection_type |-> "frequent_interaction",
                 risk_score |-> IF Len(counterparties) > 10 THEN 60 ELSE 30]]

\* line 118: amt < dust_threshold, with amt the raw value as it is written
\* (line 112 does not divide by 1e18) and dust_threshold = 0.1
BelowDustThreshold(v) == 10 * v < 1

DustAttacksRaises(txs, main_address) ==
    \E i \in 1..Len(txs) :
        /\ LowerOf(txs[i], "from") = Lower(main_address)
        /\ ~Parses(ValueOf(txs[i]))

\* lines 103-123
_find_dust_attacks(txs, main_address) ==
    LET sent == SelectSeq(txs, LAMBDA tx : LowerOf(tx, "from") = Lower(main_address))
        recipients == FirstSeen([i \in 1..Len(sent) |-> LowerOf(sent[i], "to")])
        dust_recipients == SelectSeq(recipients, LAMBDA addr :
            \E i \in 1..Len(sent) :
                LowerOf(sent[i], "to") = addr /\ BelowDustThreshold(ValueOf(sent[i])))
    IN  [i \in 1..Min(20, Len(dust_recipients)) |->
            [address |-> dust_recipients[i], pattern |-> "dust_attack",
             risk_score |-> 70, is_suspicious |-> TRUE]]

\* the test on the path length is left out
ClosesCycleAnyLength(neighbor, target, path) == neighbor = target

\* line 139
\* a path of one node is enough
ClosesCycleOneHop(neighbor, target, path) == neighbor = target /\ Len(path) >= 1

ClosesCycle(neighbor, target, path) == neighbor = target /\ Len(path) >= 2

\* line 134
\* the branch is aborted one level later
DepthExceededLate(depth, max_depth) == depth > max_depth + 1

\* line 134
DepthExceeded(depth, max_depth) == depth > max_depth

\* lines 132-153: the paths find_paths appends to circular, in the order it
\* appends them.  visited is the set at the time of the call; the call
\* removes every node it adds, so the caller goes on with the same set.
RECURSIVE find_paths(_, _, _, _, _, _, _, _), VisitNeighbors(_, _, _, _, _, _, _, _, _)
find_paths(graph, ord, max_depth, current, target, path, visited, depth) ==
    IF DepthExceeded(depth, max_depth) THEN <<>>
    ELSE VisitNeighbors(graph, ord, max_depth, current, target, path, visited, depth,
                        Enumerate(Neighbors(graph, current), ord))

\* the for loop of find_paths over the neighbours still to visit
VisitNeighbors(graph, ord, max_depth, current, target, path, visited, depth, todo) ==
    IF todo = <<>> THEN <<>>
    ELSE LET neighbor == Head(todo)
         IN  IF ClosesCycle(neighbor, target, path)
             THEN << [path |-> path \o <<target>>, pattern |-> "circular",
                      risk_score |-> 80, is_suspicious |-> TRUE] >>
             ELSE (IF neighbor \notin visited
                   THEN find_paths(graph, ord, max_depth, neighbor, target,
                                   path \o <<current>>, visited \cup {neighbor},
                                   depth + 1)
                   ELSE <<>>)
                  \o VisitNeighbors(graph, ord, max_depth, current, target, path,
                                    visited, depth, Tail(todo))

\* lines 126-156
_find_circular_patterns(graph, start_address, max_depth, ord) ==
    LET start == Lower(start_address)
        circular == find_paths(graph, ord, max_depth, start, start, <<>>, {start}, 1)
    IN  SubSeq(circular, 1, Min(10, Len(circular)))

\* line 164: the sort key is the timeStamp as it is written
RawTime(tx) == GetNum(tx, "timeStamp")

\* sorted_txs[0] without the test for an empty list
TimingRaisesOnEmpty(txs) ==
    Len(txs) = 0 \/ (Len(txs) >= 2 /\ \E i \in 1..Len(txs) : ~Parses(RawTime(txs[i])))

\* comparing the keys in sorted() or int() in the loop raises, once there
\* are two transactions
TimingRaises(txs) ==
    Len(txs) >= 2 /\ \E i \in 1..Len(txs) : ~Parses(RawTime(txs[i]))

\* lines 166-180: the clusters list after the loop over sorted_txs[1:], as
\* the loop leaves it: a cluster is appended when the next transaction is
\* more than 300 seconds later
RECURSIVE TimingLoop(_, _, _)
TimingLoop(rest, current_cluster, clusters) ==
    IF rest = <<>> THEN clusters
    ELSE LET tx == Head(rest)
             prev_time == RawTime(current_cluster[Len(current_cluster)])
             curr_time == RawTime(tx)
         IN  IF curr_time - prev_time <= 300
             THEN TimingLoop(Tail(rest), Append(current_cluster, tx), clusters)
             ELSE TimingLoop(Tail(rest), <<tx>>,
                             IF Len(current_cluster) >= 5
                             THEN Append(clusters, current_cluster)
                             ELSE clusters)

\* lines 159-191
_find_timing_clusters(txs) ==
    LET sorted_txs == SortedByKey(txs, [i \in 1..Len(txs) |-> RawTime(txs[i])])
        clusters == IF sorted_txs = <<>> THEN <<>>
                    ELSE TimingLoop(Tail(sorted_txs), <<sorted_txs[1]>>, <<>>)
    IN  [i \in 1..Len(clusters) |->
            [cluster_size |-> Len(clusters[i]),
             time_range |-> <<RawTime(clusters[i][1]),
                              RawTime(clusters[i][Len(clusters[i])])>>,
             pattern |-> "timing_cluster",
             risk_score |-> Min(50 + Len(clusters[i]) * 5, 95),
             is_suspicious |-> Len(clusters[i]) > 10]]

AmountPatternsRaises(txs) == \E i \in 1..Len(txs) : ~Parses(ValueOf(txs[i]))

\* lines 194-217: the amount is the raw value as it is written; a raw value
\* of the model is a whole number, which round(amount, 4) leaves as it is
_find_amount_patterns(txs) ==
    LET paid == SelectSeq(txs, LAMBDA tx : ValueOf(tx) > 0)
        amounts == FirstSeen([i \in 1..Len(paid) |-> ValueOf(paid[i])])
        group(a) == SelectSeq(paid, LAMBDA tx : ValueOf(tx) = a)
        recipients(a) == {GetAddr(group(a)[i], "to", "") : i \in 1..Len(group(a))}
        found == SelectSeq(amounts, LAMBDA a :
                    Len(group(a)) >= 3 /\ Cardinality(recipients(a)) >= 3)
    IN  [i \in 1..Min(10, Len(found)) |->
            [amount |-> found[i],
             recipient_count |-> Cardinality(recipients(found[i])),
             pattern |-> "amount_splitting",
             risk_score |-> 60, is_suspicious |-> TRUE]]

ClusterRaises(txs, main_address) ==
    \/ BuildGraphRaises(txs)
    \/ DustAttacksRaises(txs, main_address)
    \/ TimingRaises(txs)
    \/ AmountPatternsRaises(txs)

\* lines 23-67
cluster_addresses(txs, main_address, ord) ==
    IF ClusterRaises(txs, main_address) THEN [raised |-> TRUE]
    ELSE LET graph == _build_address_graph(txs)
         IN  [raised |-> FALSE,
              clusters |->
                [suspicious_counterparties |->
                    _find_frequent_counterparties(graph, main_address, ord),
                 mixer_outputs |-> <<>>,
                 dust_attacks |-> _find_dust_attacks(txs, main_address),
                 circular_patterns |->
                    _find_circular_patterns(graph, main_address, 3, ord),
                 timing_clusters |-> _find_timing_clusters(txs),
                 amount_clusters |-> _find_amount_patterns(txs)]]

----------------------------------------------------------------------------
(* advanced_analysis.py: AnomalyDetector.detect_anomalies *)

\* lines 367-368: fewer than 10 transactions give no anomalies.  The
\* isolation forest of the longer lists is library code; flagged is the set
\* of indices it marks as outliers.
\* A record may say that its numeric fields are written as strings
\* ('value': '5'), the form the block explorers deliver.
IsText(tx) == IF "text" \in DOMAIN tx THEN tx.text ELSE FALSE

\* the floor is one transaction lower
TooFewBelowNine(txs) == Len(txs) < 9

\* line 367
TooFew(txs) == Len(txs) < 10

\* lines 394-398: tx.get('value', 0) > np.percentile(...) compares the field
\* as it is written with a float; a str raises TypeError
ReasonsRaise(tx) == IsText(tx)

detect_anomalies(txs, flagged) ==
    IF TooFew(txs) THEN [raised |-> FALSE, anomalies |-> <<>>]
    ELSE IF \E i \in 1..Len(txs) : ~Parses(ValueOf(txs[i])) \/ ~Parses(RawTime(txs[i]))
    THEN [raised |-> TRUE]
    ELSE IF \E i \in flagged : ReasonsRaise(txs[i])
    THEN [raised |-> TRUE]
    ELSE [raised |-> FALSE,
          anomalies |-> LET hits == SelectSeq([i \in 1..Len(txs) |-> i],
                                              LAMBDA i : i \in flagged)
                        IN  [k \in 1..Len(hits) |->
                               [from |-> GetAddr(txs[hits[k]], "from", ""),
                                to |-> GetAddr(txs[hits[k]], "to", ""),
                                amount |-> ValueOf(txs[hits[k]]),
                                timestamp |-> RawTime(txs[hits[k]])]]]

----------------------------------------------------------------------------
(* The analyses on a transaction list: Init draws the list and the root   *)
(* address, each action is one call on them.                              *)

MaxLen == 2

\* the most transactions the outlier model marks in one call of the model
MaxFlagged == 2

\* the sequences over set of length at most n
SeqUpTo(set, n) == UNION {[1..k -> set] : k \in 0..n}

\* the addresses a graph of the model can hold, and the orders in which a
\* set of them can be enumerated
Nodes == {"a", "b", "c", "d"}

Orders == {p \in [1..Cardinality(Nodes) -> Nodes] : Range(p) = Nodes}

SortedOrder == <<"a", "b", "c", "d">>

\* the number of fields of a record that are None, unparsable or missing
Malformed(t) ==
    Points(t.from \in {PyNone, Absent}, 1) + Points(t.to \in {PyNone, Absent}, 1)
    + Points(~Parses(t.value), 1) + Points(~Parses(t.timeStamp), 1)

\* records with at most one malformed field
TxDomain ==
    {t \in [from : {"a", "b", PyNone, Absent},
            to : {"A", "c", PyNone, Absent},
            value : {EthUnits, NoneNum, BadNum, AbsentNum},
            timeStamp : {30, NoneNum, BadNum, AbsentNum}] : Malformed(t) <= 1}

InitAnalyze ==
    /\ txlist \in SeqUpTo(TxDomain, MaxLen)
    /\ root \in {"a", "A"}
    /\ order = SortedOrder
    /\ patterns = EmptyPatterns
    /\ summary = [total_transactions |-> 0, unique_senders |-> 0, unique_receivers |-> 0]
    /\ op = "none"
    /\ out = NoOut
    /\ entities = KNOWN_ENTITIES
    /\ dfs = NoDfs
    /\ monitor = NoMonitor

DetectPatterns ==
    /\ op = "none"
    /\ op' = "detect_patterns"
    /\ out' = detect_patterns(txlist, root)
    /\ UNCHANGED <<txlist, root, order, patterns, summary, entities, dfs, monitor>>

AnalyzeLiveEth ==
    /\ op = "none"
    /\ op' = "analyze_live_eth"
    /\ out' = analyze_live_eth(txlist, root, 0, FarFuture, 1, "ethereum")
    /\ UNCHANGED <<txlist, root, order, patterns, summary, entities, dfs, monitor>>

ClusterAddresses ==
    /\ op = "none"
    /\ op' = "cluster_addresses"
    /\ out' = cluster_addresses(txlist, root, order)
    /\ UNCHANGED <<txlist, root, order, patterns, summary, entities, dfs, monitor>>

DetectAnomalies ==
    /\ op = "none"
    /\ op' = "detect_anomalies"
    /\ \E flagged \in (IF Len(txlist) < 10 THEN {{}}
                       ELSE {f \in SUBSET (1..Len(txlist)) :
                                Cardinality(f) <= MaxFlagged}) :
          out' = detect_anomalies(txlist, flagged)
    /\ UNCHANGED <<txlist, root, order, patterns, summary, entities, dfs, monitor>>

NextAnalyze == DetectPatterns \/ AnalyzeLiveEth \/ ClusterAddresses \/ DetectAnomalies

SpecAnalyze == InitAnalyze /\ [][NextAnalyze]_vars

----------------------------------------------------------------------------
(* Claims on malformed and empty input *)

\* C4: detect_patterns and analyze_live_eth never raise, whatever field of
\* a record is None, unparsable or missing.
C4_NeverRaises ==
    op \in {"detect_patterns", "analyze_live_eth"} => ~out.raised

AllFlagsFalse(p) ==
    /\ ~p.rapid_succession /\ ~p.high_frequency_wallet
    /\ ~p.mixing_service_suspicion /\ ~p.consolidation_pattern
    /\ ~p.layering_pattern

\* C5: on the empty list, for every root address, analyze_live_eth returns
\* a zero summary with no flag and risk score 0, cluster_addresses returns
\* an empty list under every category, detect_anomalies returns the empty
\* list, and none of them raises.
C5_EmptyInput ==
    txlist = <<>> =>
        /\ op = "analyze_live_eth" =>
              /\ ~out.raised
              /\ out.summary.total_transactions = 0
              /\ AllFlagsFalse(out.summary.patterns)
              /\ out.summary.patterns.round_amounts = <<>>
              /\ out.summary.patterns.dust_transactions = <<>>
              /\ out.summary.risk_score = 0
              /\ out.summary.risk_factors = <<>>
        /\ op = "cluster_addresses" =>
              /\ ~out.raised
              /\ \A k \in DOMAIN out.clusters : out.clusters[k] = <<>>
        /\ op = "detect_anomalies" =>
              /\ ~out.raised
              /\ out.anomalies = <<>>

C5_Witness ==
    /\ txlist = <<>>
    /\ root = "A"
    /\ op = "cluster_addresses"
    /\ ~out.raised
    /\ DOMAIN out.clusters = {"suspicious_counterparties", "mixer_outputs", "dust_attacks",
                               "circular_patterns", "timing_clusters", "amount_clusters"}

----------------------------------------------------------------------------
(* The graph analyses: Init draws a set of links between the addresses,   *)
(* the transaction list has one transfer per link, and the order in which *)
(* this run enumerates a set of addresses.                                *)

MaxEdges == 5
MaxDepth == 4

\* the unordered pairs of addresses, a pair of an address with itself included
Links == {l \in (1..Len(SortedOrder)) \X (1..Len(SortedOrder)) : l[1] <= l[2]}

\* the recipient is written in upper case where the model has that spelling
Upper(s) ==
    CASE s = "a" -> "A"
      [] s = "b" -> "B"
      [] OTHER -> s

TransferOf(l) ==
    [from |-> SortedOrder[l[1]], to |-> Upper(SortedOrder[l[2]]),
     value |-> EthUnits, timeStamp |-> 1000 * (l[1] * Len(SortedOrder) + l[2])]

\* one transfer per link, in the order of the links
TransfersOf(links) ==
    LET all == [i \in 1..(Len(SortedOrder) * Len(SortedOrder)) |->
                  <<((i - 1) \div Len(SortedOrder)) + 1, ((i - 1) % Len(SortedOrder)) + 1>>]
        chosen == SelectSeq(all, LAMBDA l : l \in links)
    IN  [i \in 1..Len(chosen) |-> TransferOf(chosen[i])]

InitGraph ==
    /\ \E links \in {ls \in SUBSET Links : Cardinality(ls) <= MaxEdges} :
          txlist = TransfersOf(links)
    /\ root = "A"
    /\ order \in Orders
    /\ patterns = EmptyPatterns
    /\ summary = [total_transactions |-> 0, unique_senders |-> 0, unique_receivers |-> 0]
    /\ op = "none"
    /\ out = NoOut
    /\ entities = KNOWN_ENTITIES
    /\ dfs = NoDfs
    /\ monitor = NoMonitor

\* _find_circular_patterns called on the graph of the list
FindCircularPatterns ==
    /\ op = "none"
    /\ ~BuildGraphRaises(txlist)
    /\ \E max_depth \in 1..MaxDepth :
          out' = [max_depth |-> max_depth,
                  circular |-> _find_circular_patterns(_build_address_graph(txlist),
                                                       root, max_depth, order)]
    /\ op' = "_find_circular_patterns"
    /\ UNCHANGED <<txlist, root, order, patterns, summary, entities, dfs, monitor>>

NextGraph == ClusterAddresses \/ FindCircularPatterns

SpecGraph == InitGraph /\ [][NextGraph]_vars

----------------------------------------------------------------------------
(* Claims on the circular patterns *)

\* the path starts and ends with start, has at least 3 nodes, and no node
\* between the two ends is start or occurs twice
ValidCycle(path, start) ==
    /\ Len(path) >= 3
    /\ path[1] = start
    /\ path[Len(path)] = start
    /\ \A i \in 2..(Len(path) - 1) : path[i] # start
    /\ \A i, j \in 2..(Len(path) - 1) : i # j => path[i] # path[j]

\* C6: every path _find_circular_patterns returns begins and ends with the
\* lower-cased start address, has at least 3 nodes and repeats no
\* intermediate node.
C6_CycleValidity ==
    /\ op = "_find_circular_patterns" =>
          \A i \in 1..Len(out.circular) : ValidCycle(out.circular[i].path, Lower(root))
    /\ (op = "cluster_addresses" /\ ~out.raised) =>
          \A i \in 1..Len(out.clusters.circular_patterns) :
              ValidCycle(out.clusters.circular_patterns[i].path, Lower(root))

\* a reported path with two intermediate nodes
C6_Witness ==
    /\ op = "_find_circular_patterns"
    /\ \E i \in 1..Len(out.circular) : Len(out.circular[i].path) = 4

\* C7: circular_patterns and suspicious_counterparties are the same lists
\* whatever the order the neighbour sets are enumerated in: those of this
\* run are those of a run that enumerates them in sorted order.
C7_OrderIndependent ==
    (op = "cluster_addresses" /\ ~out.raised) =>
        /\ out.clusters.circular_patterns =
              cluster_addresses(txlist, root, SortedOrder).clusters.circular_patterns
        /\ out.clusters.suspicious_counterparties =
              cluster_addresses(txlist, root, SortedOrder).clusters.suspicious_counterparties

----------------------------------------------------------------------------
(* The timing clusters: Init draws the gaps between successive            *)
(* timestamps, each 300 or 301 seconds, and whether the caller passes the *)
(* list in ascending or in descending order of time.                      *)

MaxTimed == 10

\* the transfer at time t
TransferAt(t) == [from |-> "a", to |-> "b", value |-> EthUnits, timeStamp |-> t]

\* the timestamps that start at 0 and follow each other at the given gaps
RECURSIVE TimesOf(_)
TimesOf(gaps) ==
    IF gaps = <<>> THEN <<0>>
    ELSE LET init == TimesOf(SubSeq(gaps, 1, Len(gaps) - 1))
         IN  Append(init, init[Len(init)] + gaps[Len(gaps)])

Reverse(s) == [i \in 1..Len(s) |-> s[Len(s) + 1 - i]]

TimedLists ==
    {<<>>} \cup
    UNION {{[i \in 1..Len(TimesOf(gaps)) |-> TransferAt(TimesOf(gaps)[i])],
            Reverse([i \in 1..Len(TimesOf(gaps)) |-> TransferAt(TimesOf(gaps)[i])])} :
              gaps \in SeqUpTo({300, 301}, MaxTimed - 1)}

InitTiming ==
    /\ txlist \in TimedLists
    /\ root = "a"
    /\ order = SortedOrder
    /\ patterns = EmptyPatterns
    /\ summary = [total_transactions |-> 0, unique_senders |-> 0, unique_receivers |-> 0]
    /\ op = "none"
    /\ out = NoOut
    /\ entities = KNOWN_ENTITIES
    /\ dfs = NoDfs
    /\ monitor = NoMonitor

FindTimingClusters ==
    /\ op = "none"
    /\ ~TimingRaises(txlist)
    /\ op' = "_find_timing_clusters"
    /\ out' = _find_timing_clusters(txlist)
    /\ UNCHANGED <<txlist, root, order, patterns, summary, entities, dfs, monitor>>

NextTiming == FindTimingClusters \/ ClusterAddresses

SpecTiming == InitTiming /\ [][NextTiming]_vars

----------------------------------------------------------------------------
(* Claim on the timing clusters *)

\* the timestamps of the list in ascending order
C8_Times ==
    LET times == [i \in 1..Len(txlist) |-> txlist[i].timeStamp]
    IN  SortedByKey(times, times)

\* i..j is a maximal run of times: every gap inside is at most 300
\* seconds, the gap before it and the gap after it, where there is one, is
\* larger
C8_IsRun(times, i, j) ==
    /\ i <= j
    /\ \A k \in i..(j - 1) : times[k + 1] - times[k] <= 300
    /\ i = 1 \/ times[i] - times[i - 1] > 300
    /\ j = Len(times) \/ times[j + 1] - times[j] > 300

\* the lengths of the maximal runs of at least 5 transactions, in ascending
\* order of time
C8_RunLengths ==
    LET times == C8_Times
        starts == SelectSeq([i \in 1..Len(times) |-> i],
                    LAMBDA i : \E j \in (i + 4)..Len(times) : C8_IsRun(times, i, j))
    IN  [n \in 1..Len(starts) |->
            (CHOOSE j \in starts[n]..Len(times) : C8_IsRun(times, starts[n], j))
              - starts[n] + 1]

\* C8: _find_timing_clusters returns one record per maximal run of at least
\* 5 transactions with gaps of at most 300 seconds, first, middle or last,
\* with cluster_size the length of the run, and no other record.
C8_MaximalRuns ==
    op = "_find_timing_clusters" =>
        [i \in 1..Len(out) |-> out[i].cluster_size]
          = C8_RunLengths

----------------------------------------------------------------------------
(* detect_patterns on longer lists.  Init draws either a block of up to   *)
(* MaxBlock transfers between addresses in both spellings, once or        *)
(* BlockRepeats times in a row, or a list of up to MaxSpaced transfers of  *)
(* which the first gaps (MaxFast at most) are short and the others long,  *)
(* in ascending or in                                                     *)
(* descending order of time.                                              *)

MaxBlock == 3
BlockRepeats == 7
MaxSpaced == 60
MaxFast == 4

CaseTx == [from : {"a", "A", "b"}, to : {"a", "B", "b"},
           value : {EthUnits}, timeStamp : {0}]

\* block, n times in a row
Repeat(block, n) ==
    [i \in 1..(n * Len(block)) |-> block[((i - 1) % Len(block)) + 1]]

CaseLists ==
    UNION {{block, Repeat(block, BlockRepeats)} :
              block \in SeqUpTo(CaseTx, MaxBlock) \ {<<>>}}

\* n transfers to the root: the first k gaps are fast seconds, the others
\* slow seconds
SpacedTimes(n, k, fast, slow) ==
    [i \in 1..n |-> IF i - 1 <= k THEN (i - 1) * fast
                    ELSE k * fast + (i - 1 - k) * slow]

SpacedList(n, k, fast, slow) ==
    [i \in 1..n |-> [from |-> "b", to |-> "a", value |-> EthUnits,
                     timeStamp |-> SpacedTimes(n, k, fast, slow)[i]]]

SpacedLists ==
    UNION {{SpacedList(n, k, fast, slow), Reverse(SpacedList(n, k, fast, slow))} :
              n \in 0..MaxSpaced, k \in 0..MaxFast, fast \in {1, 59}, slow \in {0, 60}}

InitPatterns ==
    /\ txlist \in CaseLists \cup SpacedLists
    /\ root \in {"a", "A"}
    /\ order = SortedOrder
    /\ patterns = EmptyPatterns
    /\ summary = [total_transactions |-> 0, unique_senders |-> 0, unique_receivers |-> 0]
    /\ op = "none"
    /\ out = NoOut
    /\ entities = KNOWN_ENTITIES
    /\ dfs = NoDfs
    /\ monitor = NoMonitor

NextPatterns == DetectPatterns

SpecPatterns == InitPatterns /\ [][NextPatterns]_vars

----------------------------------------------------------------------------
(* Claims on detect_patterns *)

\* the list with every address in lower case
C9_LowerCased(txs) ==
    [i \in 1..Len(txs) |->
        [txs[i] EXCEPT !.from = Lower(@), !.to = Lower(@)]]

\* C9: detect_patterns returns the same PatternSet when the root address
\* and the from and to of the transactions are written in another letter
\* case: the result is that of the lower-cased input.
C9_CaseInsensitive ==
    op = "detect_patterns" =>
        out = detect_patterns(C9_LowerCased(txlist), Lower(root))

\* the timestamps of the list in ascending order
C10_Times ==
    LET times == [i \in 1..Len(txlist) |-> txlist[i].timeStamp]
    IN  SortedByKey(times, times)

\* the number of gaps between successive timestamps that are more than 0
\* and less than 60 seconds
C10_RapidGaps ==
    LET times == C10_Times
    IN  Cardinality({i \in 1..(Len(times) - 1) :
            /\ times[i + 1] - times[i] > 0
            /\ times[i + 1] - times[i] < 60})

\* C10: rapid_succession is true iff there are at least 3 transactions and
\* the rapid gaps number strictly more than 0.3 times all gaps.
C10_RapidSuccession ==
    (op = "detect_patterns" /\ ~out.raised) =>
        (out.patterns.rapid_succession <=>
            /\ Len(txlist) >= 3
            /\ 10 * C10_RapidGaps > 3 * (Len(txlist) - 1))

\* 60 transactions, each 60 seconds after the one before
C10_Witness ==
    /\ op = "detect_patterns"
    /\ Len(txlist) = 60
    /\ LET times == C10_Times
       IN  \A i \in 1..59 : times[i + 1] - times[i] = 60
    /\ ~out.raised
    /\ ~out.patterns.rapid_succession
    /\ out.patterns.high_frequency_wallet

----------------------------------------------------------------------------
(* Claim on the confidence score *)

C12_TrueFlags ==
    Cardinality({f \in {"rapid_succession", "high_frequency_wallet",
                        "mixing_service_suspicion", "consolidation_pattern",
                        "layering_pattern"} : patterns[f]})

C12_Parties == summary.unique_senders + summary.unique_receivers

----------------------------------------------------------------------------
(* Specification of detect_patterns on amounts at the dust boundary *)

MaxDustList == 2
MaxBelow == 3

\* amounts of 0, 10^12 wei, and around 10^16 wei (0.01 ETH), each less up
\* to MaxBelow wei
DustTx ==
    {[from |-> "a", to |-> "b", value |-> 0, timeStamp |-> 0, below |-> 0]}
    \cup [from : {"a"}, to : {"b"}, value : {1, 9999, 10000, 10001},
          timeStamp : {0}, below : 0..MaxBelow]

InitDust ==
    /\ txlist \in SeqUpTo(DustTx, MaxDustList)
    /\ root \in {"a", "b"}
    /\ order = SortedOrder
    /\ patterns = EmptyPatterns
    /\ summary = [total_transactions |-> 0, unique_senders |-> 0, unique_receivers |-> 0]
    /\ op = "none"
    /\ out = NoOut
    /\ entities = KNOWN_ENTITIES
    /\ dfs = NoDfs
    /\ monitor = NoMonitor

NextDust == DetectPatterns

SpecDust == InitDust /\ [][NextDust]_vars

----------------------------------------------------------------------------
(* Claim on the dust boundary *)

\* 0 < raw < 10^16 for the raw amount value * 10^12 - below wei
C11_RawIsDust(tx) ==
    /\ tx.value > 0
    /\ tx.value < 10000 \/ (tx.value = 10000 /\ tx.below > 0)

\* C11: dust_transactions has one entry for each transaction whose raw
\* value is above 0 and below 10^16 wei, and no other entry.
C11_DustCount ==
    (op = "detect_patterns" /\ ~out.raised) =>
        Len(out.patterns.dust_transactions) =
            Cardinality({i \in 1..Len(txlist) : C11_RawIsDust(txlist[i])})

----------------------------------------------------------------------------
(* Specification of the dust attack finder: transfers of 0, 0.05, 0.1 and *)
(* 1 ETH between a few addresses                                          *)

MaxSent == 2

SentTx ==
    [from : {"a", "A", "b"}, to : {"b", "B", "c"},
     value : {0, 50000, 100000, EthUnits}, timeStamp : {0}]

InitDustAttack ==
    /\ txlist \in SeqUpTo(SentTx, MaxSent)
    /\ root \in {"a", "A"}
    /\ order = SortedOrder
    /\ patterns = EmptyPatterns
    /\ summary = [total_transactions |-> 0, unique_senders |-> 0, unique_receivers |-> 0]
    /\ op = "none"
    /\ out = NoOut
    /\ entities = KNOWN_ENTITIES
    /\ dfs = NoDfs
    /\ monitor = NoMonitor

FindDustAttacks ==
    /\ op = "none"
    /\ op' = "_find_dust_attacks"
    /\ out' = IF DustAttacksRaises(txlist, root)
              THEN [raised |-> TRUE, dust_attacks |-> <<>>]
              ELSE [raised |-> FALSE,
                    dust_attacks |-> _find_dust_attacks(txlist, root)]
    /\ UNCHANGED <<txlist, root, order, patterns, summary, entities, dfs, monitor>>

NextDustAttack == FindDustAttacks \/ ClusterAddresses

SpecDustAttack == InitDustAttack /\ [][NextDustAttack]_vars

----------------------------------------------------------------------------
(* Claim on the dust attack finder *)

\* the recipients to which the root address sent less than 0.1 ETH
\* (10^17 wei) in some transaction
C13_Qualifying ==
    {Lower(txlist[i].to) : i \in {j \in 1..Len(txlist) :
        /\ Lower(txlist[j].from) = Lower(root)
        /\ 10 * txlist[j].value < EthUnits}}

\* C13: only qualifying recipients are flagged, all of them when they are
\* at most 20, and never more than 20 entries are returned.
C13_DustAttacks ==
    (op = "_find_dust_attacks" /\ ~out.raised) =>
        LET flagged == {out.dust_attacks[i].address : i \in 1..Len(out.dust_attacks)}
        IN  /\ flagged \subseteq C13_Qualifying
            /\ Cardinality(C13_Qualifying) <= 20 => C13_Qualifying \subseteq flagged
            /\ Len(out.dust_attacks) <= 20

----------------------------------------------------------------------------
(* Specification of the amount pattern finder: transfers of 1 ETH and of  *)
(* 1.00001 ETH to recipients of which two differ in letter case only      *)

MaxAmounts == 3

AmountTx ==
    [from : {"a"}, to : {"b", "B", "c", "d"},
     value : {EthUnits, EthUnits + 10}, timeStamp : {0}]

InitAmounts ==
    /\ txlist \in SeqUpTo(AmountTx, MaxAmounts)
    /\ root = "a"
    /\ order = SortedOrder
    /\ patterns = EmptyPatterns
    /\ summary = [total_transactions |-> 0, unique_senders |-> 0, unique_receivers |-> 0]
    /\ op = "none"
    /\ out = NoOut
    /\ entities = KNOWN_ENTITIES
    /\ dfs = NoDfs
    /\ monitor = NoMonitor

FindAmountPatterns ==
    /\ op = "none"
    /\ op' = "_find_amount_patterns"
    /\ out' = IF AmountPatternsRaises(txlist)
              THEN [raised |-> TRUE, amount_clusters |-> <<>>]
              ELSE [raised |-> FALSE,
                    amount_clusters |-> _find_amount_patterns(txlist)]
    /\ UNCHANGED <<txlist, root, order, patterns, summary, entities, dfs, monitor>>

NextAmounts == FindAmountPatterns \/ ClusterAddresses

SpecAmounts == InitAmounts /\ [][NextAmounts]_vars

----------------------------------------------------------------------------
(* Claim on the amount pattern finder *)

\* the transactions whose normalized value rounds to k at 4 decimals
C14_Group(k) == {i \in 1..Len(txlist) : Round4(txlist[i].value) = k}

\* the rounded values shared by at least 3 transactions going to at least
\* 3 recipients that differ in more than letter case
C14_Qualifying ==
    {k \in {Round4(txlist[i].value) : i \in 1..Len(txlist)} :
        /\ Cardinality(C14_Group(k)) >= 3
        /\ Cardinality({Lower(txlist[i].to) : i \in C14_Group(k)}) >= 3}

\* C14: the groups reported are the qualifying ones, at most 10 of them,
\* each with risk_score 0.6.
C14_AmountGroups ==
    (op = "_find_amount_patterns" /\ ~out.raised) =>
        LET found == out.amount_clusters
        IN  /\ Len(found) = Min(10, Cardinality(C14_Qualifying))
            /\ \A i \in 1..Len(found) :
                    /\ Round4(found[i].amount) \in C14_Qualifying
                    /\ found[i].risk_score = 60

----------------------------------------------------------------------------
(* Claim on the finding records of cluster_addresses *)

\* a record with a pattern string, a risk_score from 0 to 1 (in
\* hundredths) and a boolean is_suspicious
C15_WellFormed(rec) ==
    /\ {"pattern", "risk_score", "is_suspicious"} \subseteq DOMAIN rec
    /\ rec.pattern \in STRING
    /\ 0 <= rec.risk_score /\ rec.risk_score <= 100
    /\ rec.is_suspicious \in BOOLEAN

\* C15: every finding record of every category of cluster_addresses carries
\* a pattern, a risk_score between 0 and 1 and a boolean is_suspicious.
C15_FindingRecords ==
    (op = "cluster_addresses" /\ ~out.raised) =>
        \A c \in {"suspicious_counterparties", "dust_attacks", "circular_patterns",
                  "timing_clusters", "amount_clusters"} :
            \A i \in 1..Len(out.clusters[c]) : C15_WellFormed(out.clusters[c][i])

----------------------------------------------------------------------------
(* Specification of detect_anomalies on batches around the floor of 10    *)
(* transactions: values 1, 2, ... 100 seconds apart, written as numbers   *)
(* or as strings, or with a first record whose value does not parse       *)

MaxBatch == 11

BatchTx(i, kind) ==
    [from |-> "a", to |-> "b",
     value |-> IF kind = "bad" /\ i = 1 THEN BadNum ELSE i,
     timeStamp |-> 100 * i,
     text |-> (kind = "str")]

Batches ==
    {[i \in 1..n |-> BatchTx(i, kind)] :
        n \in 0..MaxBatch, kind \in {"int", "str", "bad"}}

InitAnomalies ==
    /\ txlist \in Batches
    /\ root = "a"
    /\ order = SortedOrder
    /\ patterns = EmptyPatterns
    /\ summary = [total_transactions |-> 0, unique_senders |-> 0, unique_receivers |-> 0]
    /\ op = "none"
    /\ out = NoOut
    /\ entities = KNOWN_ENTITIES
    /\ dfs = NoDfs
    /\ monitor = NoMonitor

NextAnomalies == DetectAnomalies

SpecAnomalies == InitAnomalies /\ [][NextAnomalies]_vars

----------------------------------------------------------------------------
(* Claims on detect_anomalies *)

\* C16: on a batch of at least 10 transactions whose numeric fields are
\* numeric strings, detect_anomalies returns a list and does not raise.
C16_NumericStrings ==
    (/\ op = "detect_anomalies"
     /\ Len(txlist) >= 10
     /\ \A i \in 1..Len(txlist) : txlist[i].text /\ txlist[i].value >= 0)
        => ~out.raised

\* C17: a list of fewer than 10 transactions gives the empty list and no
\* exception, whatever its records hold.
C17_BelowFloor ==
    (op = "detect_anomalies" /\ Len(txlist) < 10) =>
        out = [raised |-> FALSE, anomalies |-> <<>>]

\* 9 transactions, the first with a value that does not parse
C17_Witness ==
    /\ op = "detect_anomalies"
    /\ Len(txlist) = 9
    /\ txlist[1].value = BadNum
    /\ out = [raised |-> FALSE, anomalies |-> <<>>]

----------------------------------------------------------------------------
(* Claim on the fields of the summary *)

\* C18: the summary of analyze_live_eth holds every field the completeness
\* tests ask for, and its chain_id and chain_name are the arguments.
C18_SummaryFields ==
    (op = "analyze_live_eth" /\ ~out.raised) =>
        /\ {"total_transactions", "total_volume_in", "total_volume_out",
            "net_flow", "unique_senders", "unique_receivers", "chain_id",
            "chain_name", "risk_score", "patterns", "patterns_detected",
            "entity_info", "top_victims", "top_suspects"}
                \subseteq DOMAIN out.summary
        /\ out.summary.chain_id = 1
        /\ out.summary.chain_name = "ethereum"

----------------------------------------------------------------------------
(* Specification of two analyses in a row: the caller of the first may    *)
(* write to the summary it was given before the second runs.  A dict the  *)
(* summary shares with the table KNOWN_ENTITIES is the same object, so a  *)
(* write to it is a write to the table.                                   *)

MaxShared == 2

SharedTx ==
    [from : {"V", "a"}, to : {"V", "b"}, value : {EthUnits}, timeStamp : {30}]

SharedRoots == {"V", "a"}

InitShared ==
    /\ txlist \in SeqUpTo(SharedTx, MaxShared)
    /\ root \in SharedRoots
    /\ order = SortedOrder
    /\ patterns = EmptyPatterns
    /\ summary = [total_transactions |-> 0, unique_senders |-> 0, unique_receivers |-> 0]
    /\ op = "none"
    /\ out = NoOut
    /\ entities = KNOWN_ENTITIES
    /\ dfs = NoDfs
    /\ monitor = NoMonitor

\* summary["entity_info"]["risk"] = "TAMPERED" by the caller: line 52 returned
\* KNOWN_ENTITIES[address] itself for a known address
MutateEntityInfo ==
    /\ op = "analyze_live_eth" /\ ~out.raised
    /\ op' = "mutated"
    /\ out' = [out EXCEPT !.summary.entity_info.risk = "TAMPERED"]
    /\ entities' = IF root \in DOMAIN entities
                   THEN [entities EXCEPT ![root].risk = "TAMPERED"]
                   ELSE entities
    /\ UNCHANGED <<txlist, root, order, patterns, summary, dfs, monitor>>

\* summary["patterns"]["round_amounts"].append(0) by the caller: lines 83-92
\* build the dict and its lists anew in every call
MutatePatterns ==
    /\ op = "analyze_live_eth" /\ ~out.raised
    /\ op' = "mutated"
    /\ out' = [out EXCEPT !.summary.patterns.round_amounts = Append(@, 0)]
    /\ UNCHANGED <<txlist, root, order, patterns, summary, entities, dfs, monitor>>

\* a later analysis, on another input
AnalyzeAgain ==
    /\ op \in {"analyze_live_eth", "mutated"}
    /\ txlist' \in SeqUpTo(SharedTx, MaxShared)
    /\ root' \in SharedRoots
    /\ op' = "analyze_again"
    /\ out' = analyze_live_eth(txlist', root', 0, FarFuture, 1, "ethereum")
    /\ UNCHANGED <<order, patterns, summary, entities, dfs, monitor>>

NextShared == AnalyzeLiveEth \/ MutateEntityInfo \/ MutatePatterns \/ AnalyzeAgain

SpecShared == InitShared /\ [][NextShared]_vars

----------------------------------------------------------------------------
(* Claim on the isolation of the analyses *)

\* C19: an analysis gives the result it gives alone whatever ran before it:
\* the module-level table is as the module defines it, and a later
\* analysis of a known address reports the entry the module defines.
C19_Isolated ==
    /\ entities = KNOWN_ENTITIES
    /\ dfs = NoDfs
    /\ monitor = NoMonitor
    /\ (op = "analyze_again" /\ ~out.raised /\ root \in DOMAIN KNOWN_ENTITIES) =>
            out.summary.entity_info = KNOWN_ENTITIES[root]

----------------------------------------------------------------------------
(* Claim on the cycles found with max_depth = 3 *)

\* the list has a transfer between x and y, in either direction
C20_Linked(x, y) ==
    \E i \in 1..Len(txlist) :
        {Lower(txlist[i].from), Lower(txlist[i].to)} = {x, y}

\* a cycle start-B-C-start through two distinct addresses other than start
C20_Triangle ==
    \E B, C \in Nodes \ {Lower(root)} :
        /\ B # C
        /\ C20_Linked(Lower(root), B)
        /\ C20_Linked(B, C)
        /\ C20_Linked(C, Lower(root))

\* C20: with max_depth = 3 a finding is reported iff the undirected graph
\* has a cycle start-B-C-start; traffic with a single counterparty or a
\* self-transfer alone gives none.
C20_TriangleOnly ==
    /\ (op = "_find_circular_patterns" /\ out.max_depth = 3) =>
            (out.circular # <<>> <=> C20_Triangle)
    /\ (op = "cluster_addresses" /\ ~out.raised) =>
            (out.clusters.circular_patterns # <<>> <=> C20_Triangle)

\* a finding on a list that also holds a self-transfer of the start
C20_Witness ==
    /\ op = "cluster_addresses"
    /\ ~out.raised
    /\ C20_Linked(Lower(root), Lower(root))
    /\ C20_Triangle
    /\ out.clusters.circular_patterns # <<>>

----------------------------------------------------------------------------
(* find_paths step by step: the call stack of the recursion, the set      *)
(* visited that all the calls share, and the list circular they append to.*)
(* A frame holds the arguments of one call, the neighbours its for loop   *)
(* has still to take, and the set visited as the call found it.  expanded *)
(* and closers log the calls that read their neighbours and the calls     *)
(* that recorded a cycle, each with its depth; aborted counts the calls   *)
(* that returned at line 135.                                             *)

MaxDfsEdges == 4
MaxDfsDepth == 3

ReversedOrder == [i \in 1..Len(SortedOrder) |-> SortedOrder[Len(SortedOrder) + 1 - i]]

\* lines 132-133: a call of find_paths that has not yet run its first line
Frame(current, path, depth, visited) ==
    [current |-> current, path |-> path, depth |-> depth, todo |-> <<>>,
     entered |-> FALSE, found |-> visited]

\* the call that is running
Top == dfs.stack[Len(dfs.stack)]

\* line 151
\* the neighbour stays in visited
AfterReturnKept(visited, neighbor) == visited

\* line 151
AfterReturn(visited, neighbor) == visited \ {neighbor}

\* lines 150-151, 155-156: the running call returns; its caller removes the
\* neighbour from visited and goes on with its loop, and when the first
\* call returns _find_circular_patterns returns circular[:10]
Returned(circular, closers, aborted) ==
    LET callers == SubSeq(dfs.stack, 1, Len(dfs.stack) - 1)
    IN  IF callers = <<>>
        THEN /\ dfs' = [dfs EXCEPT !.state = "returned", !.stack = <<>>,
                                   !.circular = circular, !.closers = closers,
                                   !.aborted = aborted]
             /\ op' = "_find_circular_patterns"
             /\ out' = [max_depth |-> dfs.max_depth,
                        circular |-> SubSeq(circular, 1, Min(10, Len(circular)))]
        ELSE /\ dfs' = [dfs EXCEPT
                          !.stack = [callers EXCEPT
                                       ![Len(callers)].todo = Tail(callers[Len(callers)].todo)],
                          !.visited = AfterReturn(dfs.visited, Top.current),
                          !.circular = circular, !.closers = closers,
                          !.aborted = aborted]
             /\ UNCHANGED <<op, out>>

InitDfs ==
    /\ \E links \in {ls \in SUBSET Links : Cardinality(ls) <= MaxDfsEdges} :
          txlist = TransfersOf(links)
    /\ root = "A"
    /\ order \in {SortedOrder, ReversedOrder}
    /\ patterns = EmptyPatterns
    /\ summary = [total_transactions |-> 0, unique_senders |-> 0, unique_receivers |-> 0]
    /\ op = "none"
    /\ out = NoOut
    /\ entities = KNOWN_ENTITIES
    /\ dfs = NoDfs
    /\ monitor = NoMonitor

\* lines 129-130, 155: _find_circular_patterns makes the first call
DfsStart ==
    /\ op = "none"
    /\ ~BuildGraphRaises(txlist)
    /\ \E max_depth \in 1..MaxDfsDepth :
          dfs' = [state |-> "running",
                  stack |-> << Frame(Lower(root), <<>>, 1, {Lower(root)}) >>,
                  visited |-> {Lower(root)}, circular |-> <<>>, expanded |-> <<>>,
                  closers |-> <<>>, aborted |-> 0, max_depth |-> max_depth,
                  graph |-> _build_address_graph(txlist), start |-> Lower(root)]
    /\ op' = "find_paths"
    /\ UNCHANGED <<txlist, root, order, patterns, summary, entities, monitor, out>>

\* lines 134-135: the call is too deep and returns at once
DfsAbort ==
    /\ dfs.state = "running"
    /\ ~Top.entered
    /\ DepthExceeded(Top.depth, dfs.max_depth)
    /\ Returned(dfs.circular, dfs.closers, dfs.aborted + 1)
    /\ UNCHANGED <<txlist, root, order, patterns, summary, entities, monitor>>

\* lines 137-138: the call reads the neighbours of current and starts its loop
DfsEnter ==
    /\ dfs.state = "running"
    /\ ~Top.entered
    /\ ~DepthExceeded(Top.depth, dfs.max_depth)
    /\ dfs' = [dfs EXCEPT
                 ![ "stack" ][Len(dfs.stack)].entered = TRUE,
                 ![ "stack" ][Len(dfs.stack)].todo =
                     Enumerate(Neighbors(dfs.graph, Top.current), order),
                 !.expanded = Append(dfs.expanded, <<Top.current, Top.depth>>)]
    /\ UNCHANGED <<txlist, root, order, patterns, summary, entities, monitor, op, out>>

\* lines 139-146: the neighbour is the target; the cycle is recorded and the
\* call returns without taking the neighbours that are left
DfsClose ==
    /\ dfs.state = "running"
    /\ Top.entered
    /\ Top.todo # <<>>
    /\ ClosesCycle(Head(Top.todo), dfs.start, Top.path)
    /\ Returned(Append(dfs.circular,
                       [path |-> Top.path \o <<dfs.start>>, pattern |-> "circular",
                        risk_score |-> 80, is_suspicious |-> TRUE]),
                Append(dfs.closers, <<Top.current, Top.depth>>), dfs.aborted)
    /\ UNCHANGED <<txlist, root, order, patterns, summary, entities, monitor>>

\* lines 148-150: the neighbour is new on this branch; it is added to
\* visited and find_paths is called on it
DfsDescend ==
    /\ dfs.state = "running"
    /\ Top.entered
    /\ Top.todo # <<>>
    /\ ~ClosesCycle(Head(Top.todo), dfs.start, Top.path)
    /\ Head(Top.todo) \notin dfs.visited
    /\ dfs' = [dfs EXCEPT
                 !.visited = dfs.visited \cup {Head(Top.todo)},
                 !.stack = Append(dfs.stack,
                                  Frame(Head(Top.todo), Top.path \o <<Top.current>>,
                                        Top.depth + 1,
                                        dfs.visited \cup {Head(Top.todo)}))]
    /\ UNCHANGED <<txlist, root, order, patterns, summary, entities, monitor, op, out>>

\* line 148: the neighbour is already in visited; the loop takes the next
DfsSkip ==
    /\ dfs.state = "running"
    /\ Top.entered
    /\ Top.todo # <<>>
    /\ ~ClosesCycle(Head(Top.todo), dfs.start, Top.path)
    /\ Head(Top.todo) \in dfs.visited
    /\ dfs' = [dfs EXCEPT ![ "stack" ][Len(dfs.stack)].todo = Tail(Top.todo)]
    /\ UNCHANGED <<txlist, root, order, patterns, summary, entities, monitor, op, out>>

\* line 153: the loop is over
DfsReturn ==
    /\ dfs.state = "running"
    /\ Top.entered
    /\ Top.todo = <<>>
    /\ Returned(dfs.circular, dfs.closers, dfs.aborted)
    /\ UNCHANGED <<txlist, root, order, patterns, summary, entities, monitor>>

NextDfs ==
    DfsStart \/ DfsAbort \/ DfsEnter \/ DfsClose \/ DfsDescend \/ DfsSkip \/ DfsReturn

SpecDfs == InitDfs /\ [][NextDfs]_vars

\* a call of a Python function that has started runs on until it returns
SpecDfsFair == SpecDfs /\ WF_vars(NextDfs)

\* the steps append to circular what find_paths as a whole appends
DfsAgreesWithFindPaths ==
    dfs.state = "returned" =>
        out.circular = _find_circular_patterns(dfs.graph, root, dfs.max_depth, order)

----------------------------------------------------------------------------
(* Claims on the depth-limited search *)

\* C21, safety part: every call that read its neighbours ran at a depth of at
\* most max_depth, every recorded cycle was closed at such a depth, and no
\* recorded cycle has more than max_depth edges.
C21_DepthBound ==
    /\ \A i \in 1..Len(dfs.expanded) : dfs.expanded[i][2] <= dfs.max_depth
    /\ \A i \in 1..Len(dfs.closers) : dfs.closers[i][2] <= dfs.max_depth
    /\ \A i \in 1..Len(dfs.circular) : Len(dfs.circular[i].path) <= dfs.max_depth

\* C21: for every graph, start address and max_depth the search of
\* _find_circular_patterns terminates, never expands a node at a recursion
\* depth greater than max_depth, and reports no cycle of more than max_depth
\* edges.
C21_BoundedSearch == [](C21_DepthBound) /\ <>(dfs.state = "returned")

\* the search has ended after it aborted a call that was too deep, expanded
\* a node at depth max_depth and recorded a cycle of max_depth edges
C21_Witness ==
    /\ dfs.state = "returned"
    /\ dfs.max_depth = MaxDfsDepth
    /\ dfs.aborted >= 1
    /\ \E i \in 1..Len(dfs.expanded) : dfs.expanded[i][2] = dfs.max_depth
    /\ \E i \in 1..Len(dfs.circular) : Len(dfs.circular[i].path) = dfs.max_depth

\* the nodes of the calls on the stack: start and the current branch
Branch == {dfs.stack[i].current : i \in 1..Len(dfs.stack)}

\* C27: while the search runs, visited is {start} plus the nodes on the
\* current branch and is the set the running call found when it was called
\* (so every call that has returned, early or not, left visited as it found
\* it); when the search has ended visited is {start}.
C27_VisitedIsBranch ==
    /\ dfs.state = "running" =>
          /\ dfs.visited = {dfs.start} \cup Branch
          /\ dfs.visited = Top.found
    /\ dfs.state = "returned" => dfs.visited = {dfs.start}

\* the search has ended with visited = {start} after a call returned early
\* with a cycle and a node was expanded on two branches
C27_Witness ==
    /\ dfs.state = "returned"
    /\ dfs.visited = {dfs.start}
    /\ Len(dfs.circular) >= 1
    /\ \E i, j \in 1..Len(dfs.expanded) :
          /\ i < j
          /\ dfs.expanded[i][1] = dfs.expanded[j][1]
          /\ dfs.expanded[i][1] # dfs.start

\* C28: every reported path is the closed walk that was traversed: each pair
\* of consecutive entries is joined by an edge of the graph, and the address
\* whose neighbour closed the cycle appears in the path.
C28_ClosedWalk ==
    \A i \in 1..Len(dfs.circular) :
        LET path == dfs.circular[i].path
        IN  /\ \A k \in 1..(Len(path) - 1) : <<path[k], path[k + 1]>> \in dfs.graph
            /\ dfs.closers[i][1] \in Range(path)

----------------------------------------------------------------------------
(* taint_analysis.py: TaintAnalyzer *)

\* lines 54-56: .lower() on None and float() of None or of a text that is
\* no number raise
BuildTransactionGraphRaises(txs) ==
    \E i \in 1..Len(txs) :
        \/ LowerRaises(txs[i], "from")
        \/ LowerRaises(txs[i], "to")
        \/ ~Parses(GetNum(txs[i], "value"))

\* lines 49-63: the edges in the order add_edge first meets them, and the
\* weight of each, which add_edge sets anew every time it meets the edge
_build_transaction_graph(txs) ==
    LET kept == SelectSeq(txs, LAMBDA tx : LowerOf(tx, "from") # "" /\ LowerOf(tx, "to") # "")
        pairs == [i \in 1..Len(kept) |-> <<LowerOf(kept[i], "from"), LowerOf(kept[i], "to")>>]
        vals == [i \in 1..Len(kept) |-> GetNum(kept[i], "value")]
    IN  [edges |-> FirstSeen(pairs),
         weight |-> [e \in Range(pairs) |-> LastValue(pairs, vals, e)]]

\* lines 43-47: TaintAnalyzer(transactions)
TaintAnalyzer(txs) ==
    IF BuildTransactionGraphRaises(txs) THEN [raised |-> TRUE]
    ELSE [raised |-> FALSE, transactions |-> txs,
          graph |-> _build_transaction_graph(txs), traces |-> <<>>]

----------------------------------------------------------------------------
(* The flow of value around the root: Init draws either a short list of   *)
(* transfers among a few addresses, the root one of them or none of them, *)
(* or a list with one transfer for each of MaxParties counterparties of   *)
(* the root and possibly one more transfer of one of them.                *)

MaxFlow == 2
MaxParties == 6

AllParties == <<"p1", "p2", "p3", "p4", "p5", "p6", "p7", "p8">>

Parties == SubSeq(AllParties, 1, MaxParties)

FlowOrder == SortedOrder \o AllParties

FlowTx ==
    [from : {"A", "b"}, to : {"a", "b", "c"},
     value : {EthUnits, 2 * EthUnits}, timeStamp : {30}]

\* the transfer between the root "a" and a counterparty
PartyTx(party, inbound, units) ==
    [from |-> IF inbound THEN party ELSE "a", to |-> IF inbound THEN "a" ELSE party,
     value |-> units * EthUnits, timeStamp |-> 30]

\* one transfer per counterparty, and the lists with one more transfer
PartyLists ==
    LET firsts(inbound) ==
            {[i \in 1..MaxParties |-> PartyTx(Parties[i], inbound, units[i])] :
                units \in [1..MaxParties -> {1, 2}]}
        more(inbound) == {PartyTx(Parties[i], inbound, u) : i \in 1..MaxParties, u \in {1, 2}}
    IN  UNION {firsts(inbound) \cup {Append(l, t) : l \in firsts(inbound), t \in more(inbound)} :
               inbound \in BOOLEAN}

InitFlow ==
    /\ \/ txlist \in SeqUpTo(FlowTx, MaxFlow) /\ root \in {"A", "d"}
       \/ txlist \in PartyLists /\ root = "a"
    /\ order = FlowOrder
    /\ patterns = EmptyPatterns
    /\ summary = [total_transactions |-> 0, unique_senders |-> 0, unique_receivers |-> 0]
    /\ op = "none"
    /\ out = NoOut
    /\ entities = KNOWN_ENTITIES
    /\ dfs = NoDfs
    /\ monitor = NoMonitor

\* TaintAnalyzer(transactions) constructed on the list
NewTaintAnalyzer ==
    /\ op = "none"
    /\ op' = "TaintAnalyzer"
    /\ out' = TaintAnalyzer(txlist)
    /\ UNCHANGED <<txlist, root, order, patterns, summary, entities, dfs, monitor>>

NextFlow == AnalyzeLiveEth \/ ClusterAddresses \/ NewTaintAnalyzer

SpecFlow == InitFlow /\ [][NextFlow]_vars

----------------------------------------------------------------------------
(* Claims on the flow of value *)

\* the sum of the values of the transfers of the list from frm to to
PairTotal(txs, vals, frm, to) ==
    SumSeq(Comprehend(vals, [i \in 1..Len(txs) |->
                                 txs[i].from = frm /\ txs[i].to = to]))

\* C22: in the flow graph analyze_live_eth returns, and in the graph a
\* TaintAnalyzer builds, the weight on the edge (from, to) is the sum of the
\* values of all the transactions in scope with that sender and recipient.
C22_SummedWeights ==
    /\ (op = "analyze_live_eth" /\ ~out.raised) =>
          \A e \in DOMAIN out.G :
              out.G[e] = PairTotal(txlist, [i \in 1..Len(txlist) |-> SafeValue(txlist[i])],
                                   e[1], e[2])
    /\ (op = "TaintAnalyzer" /\ ~out.raised) =>
          \A e \in DOMAIN out.graph.weight :
              out.graph.weight[e] =
                  SumSeq(Comprehend([i \in 1..Len(txlist) |-> txlist[i].value],
                                    [i \in 1..Len(txlist) |->
                                        /\ Lower(txlist[i].from) = e[1]
                                        /\ Lower(txlist[i].to) = e[2]]))

\* C23: total_volume_in is the sum of the values of the transactions in the
\* window whose to is the root, total_volume_out the sum over those whose
\* from is the root, both compared without regard to case and each
\* transaction tested against both (the transactions detect_patterns counts
\* as incoming and as outgoing), and net_flow is their difference.
C23_Volumes ==
    (op = "analyze_live_eth" /\ ~out.raised) =>
        LET vals == [i \in 1..Len(txlist) |-> SafeValue(txlist[i])]
            total_in == SumSeq(Comprehend(vals,
                            [i \in 1..Len(txlist) |-> IsIncoming(txlist[i], root)]))
            total_out == SumSeq(Comprehend(vals,
                            [i \in 1..Len(txlist) |-> IsOutgoing(txlist[i], root)]))
        IN  /\ out.summary.total_volume_in = Round4(total_in)
            /\ out.summary.total_volume_out = Round4(total_out)
            /\ out.summary.net_flow = Round4(total_in - total_out)

\* the ranking the claim C24 describes: top lists at most 5 pairs of a
\* counterparty and its cumulative value, the largest values first, equal
\* values in the order of first occurrence, which also decides the cut.
\* counted[i]: the i-th transaction counts; party[i]: its counterparty
C24_Ranked(top, counted, party) ==
    LET idx == {i \in 1..Len(txlist) : counted[i]}
        parties == {party[i] : i \in idx}
        cum(k) == SumSeq(Comprehend([i \in 1..Len(txlist) |-> SafeValue(txlist[i])],
                                    [i \in 1..Len(txlist) |-> i \in idx /\ party[i] = k]))
        first(k) == CHOOSE i \in idx : party[i] = k /\ \A j \in idx : party[j] = k => i <= j
        before(k, l) == cum(k) > cum(l) \/ (cum(k) = cum(l) /\ first(k) < first(l))
    IN  /\ Len(top) = Min(5, Cardinality(parties))
        /\ \A r \in 1..Len(top) : top[r][1] \in parties /\ top[r][2] = cum(top[r][1])
        /\ \A r, q \in 1..Len(top) : r < q => before(top[r][1], top[q][1])
        /\ \A k \in parties \ {top[r][1] : r \in 1..Len(top)} :
              \A r \in 1..Len(top) : before(top[r][1], k)

RootAbsent ==
    \A i \in 1..Len(txlist) :
        Lower(txlist[i].from) # Lower(root) /\ Lower(txlist[i].to) # Lower(root)

KNOWN_MIXERS == {"T", "j"}

\* lines 30-34: "P" stands for the bridges written with capital letters
KNOWN_BRIDGES == {"P"}

\* lines 37-41: "N" stands for the deposit addresses written with capital
\* letters, "k" for the one written in digits only
KNOWN_CEXES == {"N", "k"}

\* lines 106, 115, 123, 162, 173: addr in self.KNOWN_X.values(); addr has
\* been lower-cased, the values of the table are as the class writes them
Recognised(addr, table) == addr \in table

\* lines 153-183
DetectMixerUsageRaises(transactions) ==
    \E i \in 1..Len(transactions) :
        LowerRaises(transactions[i], "from") \/ LowerRaises(transactions[i], "to")

\* lines 157-181: the interactions one transaction adds
MixerInteractionsOf(tx) ==
    LET entry(type, addr) ==
            [type |-> type, address |-> addr, tx_hash |-> PyNone,
             amount |-> GetNum(tx, "value"), timestamp |-> GetNum(tx, "timeStamp"),
             risk |-> "CRITICAL"]
    IN  (IF Recognised(LowerOf(tx, "to"), KNOWN_MIXERS)
         THEN << entry("mixer_deposit", LowerOf(tx, "to")) >> ELSE <<>>)
        \o (IF Recognised(LowerOf(tx, "from"), KNOWN_MIXERS)
            THEN << entry("mixer_withdrawal", LowerOf(tx, "from")) >> ELSE <<>>)

RECURSIVE MixerInteractions(_)
MixerInteractions(transactions) ==
    IF transactions = <<>> THEN <<>>
    ELSE MixerInteractionsOf(Head(transactions)) \o MixerInteractions(Tail(transactions))

detect_mixer_usage(transactions) ==
    IF DetectMixerUsageRaises(transactions) THEN [raised |-> TRUE]
    ELSE [raised |-> FALSE, mixer_interactions |-> MixerInteractions(transactions)]

\* lines 71-84
EmptyTraces(source) ==
    [source |-> source, paths |-> <<>>, mixer_usage |-> <<>>, bridge_usage |-> <<>>,
     cex_deposits |-> <<>>,
     analysis |-> [total_paths |-> 0, max_depth |-> 0, total_amount_traced |-> 0,
                   amount_lost_to_mixing |-> 0, final_destinations |-> <<>>]]

\* line 86: the nodes of the graph
GraphNodes(graph) ==
    {graph.edges[i][1] : i \in 1..Len(graph.edges)}
        \cup {graph.edges[i][2] : i \in 1..Len(graph.edges)}

\* line 136: the successors of current in the order their edges were added
Successors(graph, current) ==
    LET from_current == SelectSeq(graph.edges, LAMBDA e : e[1] = current)
    IN  [k \in 1..Len(from_current) |-> from_current[k][2]]

\* lines 105-133: what the visit of current adds to traces; 2% of the
\* amounts of the model is a whole number
TrackUsage(traces, current, depth, amount) ==
    LET mixed ==
            IF Recognised(current, KNOWN_MIXERS)
            THEN [traces EXCEPT
                    !.mixer_usage = Append(@, [mixer |-> current, found_at_depth |-> depth,
                                               amount_mixed |-> amount]),
                    !.analysis.amount_lost_to_mixing = @ + (amount * 2) \div 100]
            ELSE traces
        bridged ==
            IF Recognised(current, KNOWN_BRIDGES)
            THEN [mixed EXCEPT
                    !.bridge_usage = Append(@, [bridge |-> current, found_at_depth |-> depth,
                                                amount_bridged |-> amount])]
            ELSE mixed
    IN  IF Recognised(current, KNOWN_CEXES)
        THEN [bridged EXCEPT
                !.cex_deposits = Append(@, [exchange |-> current, found_at_depth |-> depth,
                                            amount_deposited |-> amount]),
                !.analysis.final_destinations =
                    Append(@, [type |-> "cex_deposit", address |-> current,
                               amount |-> amount])]
        ELSE bridged

\* lines 93-145: the while loop over the queue
RECURSIVE TraceQueue(_, _, _, _, _)
TraceQueue(graph, max_depth, queue, visited_paths, traces) ==
    IF queue = <<>> THEN traces
    ELSE
    LET item == Head(queue)
    IN  IF item.depth >= max_depth \/ Len(item.path) > max_depth
        THEN TraceQueue(graph, max_depth, Tail(queue), visited_paths,
                        [traces EXCEPT
                           !.paths = Append(@, [path |-> item.path, depth |-> Len(item.path),
                                                final_amount |-> item.amount,
                                                terminated_at |-> item.path[Len(item.path)]])])
        ELSE
        LET fresh == SelectSeq(Successors(graph, item.current),
                               LAMBDA n : /\ n \notin Range(item.path)
                                          /\ (item.path \o <<n>>) \notin visited_paths)
            added == [k \in 1..Len(fresh) |->
                        [current |-> fresh[k], path |-> item.path \o <<fresh[k]>>,
                         depth |-> item.depth + 1,
                         amount |-> item.amount - graph.weight[<<item.current, fresh[k]>>]]]
        IN  TraceQueue(graph, max_depth, Tail(queue) \o added,
                       visited_paths \cup {added[k].path : k \in 1..Len(added)},
                       TrackUsage(traces, item.current, item.depth, item.amount))

\* lines 147-148
WithTotals(traces) ==
    [traces EXCEPT
       !.analysis.total_paths = Len(traces.paths),
       !.analysis.max_depth =
           IF traces.paths = <<>> THEN 0
           ELSE MaxSeq([k \in 1..Len(traces.paths) |-> Len(traces.paths[k].path)])]

\* lines 65-151.  A source that is no node of the graph gets the empty
\* traces (line 87).  For any other source the loop runs to its end and
\* line 149 calls sum() with the keyword default, which sum() does not
\* take: the call raises TypeError and the caller gets nothing; locals is
\* the dict traces as line 149 finds it.
trace_fund_flow(graph, source_address, max_depth) ==
    LET source == Lower(source_address)
    IN  IF source \notin GraphNodes(graph)
        THEN [raised |-> FALSE, traces |-> EmptyTraces(source)]
        ELSE [raised |-> TRUE,
              locals |-> WithTotals(TraceQueue(graph, max_depth,
                            << [current |-> source, path |-> <<source>>, depth |-> 0,
                                amount |-> 0] >>,
                            {}, EmptyTraces(source)))]

----------------------------------------------------------------------------
(* The taint analysis: Init draws a list of transfers among a few plain   *)
(* addresses and the known ones in their spellings, and the source.       *)

MaxTaint == 2
MaxTraceDepth == 2

TaintTx ==
    [from : {"a", "b", "j"}, to : {"a", "b", "c", "T", "J", "t"},
     value : {EthUnits}, timeStamp : {30}]

InitTaint ==
    /\ txlist \in SeqUpTo(TaintTx, MaxTaint)
    /\ root \in {"A", "d"}
    /\ order = SortedOrder
    /\ patterns = EmptyPatterns
    /\ summary = [total_transactions |-> 0, unique_senders |-> 0, unique_receivers |-> 0]
    /\ op = "none"
    /\ out = NoOut
    /\ entities = KNOWN_ENTITIES
    /\ dfs = NoDfs
    /\ monitor = NoMonitor

\* TaintAnalyzer(txlist).detect_mixer_usage(txlist)
DetectMixerUsage ==
    /\ op = "none"
    /\ ~TaintAnalyzer(txlist).raised
    /\ op' = "detect_mixer_usage"
    /\ out' = detect_mixer_usage(txlist)
    /\ UNCHANGED <<txlist, root, order, patterns, summary, entities, dfs, monitor>>

\* TaintAnalyzer(txlist).trace_fund_flow(root, max_depth)
TraceFundFlow ==
    /\ op = "none"
    /\ ~TaintAnalyzer(txlist).raised
    /\ op' = "trace_fund_flow"
    /\ \E max_depth \in 1..MaxTraceDepth :
          out' = [max_depth |-> max_depth,
                  result |-> trace_fund_flow(TaintAnalyzer(txlist).graph, root, max_depth)]
    /\ UNCHANGED <<txlist, root, order, patterns, summary, entities, dfs, monitor>>

NextTaint == DetectMixerUsage \/ TraceFundFlow

SpecTaint == InitTaint /\ [][NextTaint]_vars

----------------------------------------------------------------------------
(* Claims on the taint analysis *)

\* the addresses of a table without regard to letter case
AnyCase(table) == {Lower(addr) : addr \in table}

\* C25: detect_mixer_usage reports a mixer_deposit (mixer_withdrawal) for
\* every transaction whose to (from) is an address of KNOWN_MIXERS, and
\* trace_fund_flow records the usage of every known mixer it visits,
\* whatever the letter case of the address in the transaction or in the
\* table.
C25_AnyCase ==
    /\ (op = "detect_mixer_usage" /\ ~out.raised) =>
          \A i \in 1..Len(txlist) :
              /\ Lower(txlist[i].to) \in AnyCase(KNOWN_MIXERS) =>
                    \E k \in 1..Len(out.mixer_interactions) :
                        /\ out.mixer_interactions[k].type = "mixer_deposit"
                        /\ out.mixer_interactions[k].address = Lower(txlist[i].to)
              /\ Lower(txlist[i].from) \in AnyCase(KNOWN_MIXERS) =>
                    \E k \in 1..Len(out.mixer_interactions) :
                        /\ out.mixer_interactions[k].type = "mixer_withdrawal"
                        /\ out.mixer_interactions[k].address = Lower(txlist[i].from)
    /\ op = "trace_fund_flow" =>
          /\ ~out.result.raised
          /\ \A i \in 1..Len(txlist) :
                (Lower(txlist[i].from) = Lower(root)
                    /\ Lower(txlist[i].to) \in AnyCase(KNOWN_MIXERS)
                    /\ out.max_depth >= 2) =>
                        \E k \in 1..Len(out.result.traces.mixer_usage) :
                            out.result.traces.mixer_usage[k].mixer = Lower(txlist[i].to)

\* the path follows directed edges of the list, starts at source and
\* repeats no address
SimplePathFrom(path, source) ==
    /\ Len(path) >= 1
    /\ path[1] = source
    /\ \A k \in 1..(Len(path) - 1) :
          \E i \in 1..Len(txlist) :
              Lower(txlist[i].from) = path[k] /\ Lower(txlist[i].to) = path[k + 1]
    /\ \A k, l \in 1..Len(path) : k # l => path[k] # path[l]

\* C29: trace_fund_flow returns; every recorded path is a simple directed
\* path from source, and total_paths >= 1 whenever source has an outgoing
\* transfer to another address.
C29_Paths ==
    op = "trace_fund_flow" =>
        /\ ~out.result.raised
        /\ \A k \in 1..Len(out.result.traces.paths) :
              SimplePathFrom(out.result.traces.paths[k].path, Lower(root))
        /\ (\E i \in 1..Len(txlist) :
               Lower(txlist[i].from) = Lower(root) /\ Lower(txlist[i].to) # Lower(root))
              => out.result.traces.analysis.total_paths >= 1

----------------------------------------------------------------------------
(* real_time_monitor.py: RealTimeMonitor *)
(* monitor holds the fields of the object: max_monitored, the dict        *)
(* monitored_addresses as its keys in insertion order (keys) and their    *)
(* values (config), alerts and transaction_history; checks counts the     *)
(* calls of check_address, and peak[k] is the largest last_tx_count the   *)
(* entry of key k has held.  datetime.utcnow() is the value "utcnow", and *)
(* the text of an alert, which is built from its metadata, is left out.   *)

\* lines 186, 194, 240: self.transaction_history.get(address, [])
HistoryOf(m, address) ==
    IF address \in DOMAIN m.transaction_history
    THEN m.transaction_history[address] ELSE <<>>

\* the last ten entries of a list: lines 194, 240
LastTen(s) == SubSeq(s, Max(1, Len(s) - 9), Len(s))

\* lines 259-274
_generate_alert(m, address, alert_type, severity, metadata) ==
    [m EXCEPT !.alerts = Append(@, [id |-> Len(m.alerts), address |-> address,
                                    alert_type |-> alert_type, severity |-> severity,
                                    metadata |-> metadata, generated_at |-> "utcnow",
                                    acknowledged |-> FALSE])]

\* lines 192-221: the anomalies found in the last ten transactions
AnomaliesOf(recent_txs) ==
    IF Len(recent_txs) < 5 THEN <<>>
    ELSE
    LET time_diffs == [i \in 1..(Len(recent_txs) - 1) |->
                          recent_txs[i + 1].timestamp - recent_txs[i].timestamp]
        amounts == [i \in 1..Len(recent_txs) |-> recent_txs[i].value]
    IN  (IF SumSeq(time_diffs) < 30 * Len(time_diffs)
         THEN << [type |-> "unusual_frequency", severity |-> "HIGH"] >> ELSE <<>>)
        \o (IF \E i \in 1..Len(amounts) : amounts[i] * Len(amounts) > SumSeq(amounts) * 5
            THEN << [type |-> "unusual_amount", severity |-> "MEDIUM"] >> ELSE <<>>)

\* lines 224-232: one alert for each anomaly
RECURSIVE AlertAnomalies(_, _, _)
AlertAnomalies(m, address, anomalies) ==
    IF anomalies = <<>> THEN m
    ELSE AlertAnomalies(_generate_alert(m, address, Head(anomalies).type,
                                        Head(anomalies).severity, Head(anomalies)),
                        address, Tail(anomalies))

\* lines 188-234
_check_for_anomalies(m, address) ==
    LET anomalies == AnomaliesOf(LastTen(HistoryOf(m, address)))
    IN  IF anomalies # <<>> /\ m.config[address].alert_on_anomaly
        THEN [AlertAnomalies(m, address, anomalies) EXCEPT
                 !.config[address].anomalies_detected = @ + Len(anomalies)]
        ELSE m

\* line 244
Counterparty(tx, address) == IF tx.from = address THEN tx.to ELSE tx.from

\* lines 236-257
_check_for_new_counterparties(m, address) ==
    LET recent_txs == LastTen(HistoryOf(m, address))
        parties == [i \in 1..Len(recent_txs) |-> Counterparty(recent_txs[i], address)]
        new_counterparties ==
            SelectSeq(FirstSeen(parties),
                      LAMBDA c : c # "" /\ c \notin m.config[address].known_counterparties)
        known == [m EXCEPT !.config[address].known_counterparties =
                                @ \cup Range(new_counterparties)]
    IN  IF new_counterparties # <<>>
        THEN _generate_alert(known, address, "new_counterparty", "LOW",
                             [new_counterparties |-> new_counterparties])
        ELSE known

\* line 76: 'last_tx_count': 0
InitialTxCount(m, address_lower) == 0

\* lines 59-91: the monitor after add_address, and what the call returns
add_address(m, address, alert_on_new_tx, alert_on_new_counterparty) ==
    IF Len(m.keys) >= m.max_monitored
    THEN [monitor |-> m, returned |-> FALSE]
    ELSE
    LET address_lower == Lower(address)
        entry == [address |-> address, chain |-> "ethereum", added_at |-> "utcnow",
                  last_checked |-> PyNone,
                  last_tx_count |-> InitialTxCount(m, address_lower),
                  known_counterparties |-> {}, alert_on_new_tx |-> alert_on_new_tx,
                  alert_on_anomaly |-> TRUE,
                  alert_on_new_counterparty |-> alert_on_new_counterparty,
                  is_active |-> TRUE, check_count |-> 0, anomalies_detected |-> 0]
    IN  [monitor |->
            [m EXCEPT
               !.keys = IF address_lower \in Range(m.keys) THEN @
                        ELSE Append(@, address_lower),
               !.config = (address_lower :> entry) @@ @,
               !.peak = (address_lower :>
                            IF address_lower \in DOMAIN m.peak
                            THEN m.peak[address_lower] ELSE 0) @@ @],
         returned |-> TRUE]

\* lines 146-180
check_address(m, address) ==
    IF address \notin DOMAIN m.config THEN m
    ELSE
    LET config == m.config[address]
        new_tx_count == Len(HistoryOf(m, address))
        checked == [m EXCEPT !.config[address].last_checked = "utcnow",
                             !.config[address].check_count = @ + 1,
                             !.checks = @ + 1]
        alerted ==
            IF new_tx_count > config.last_tx_count /\ config.alert_on_new_tx
            THEN _generate_alert(checked, address, "new_transaction", "MEDIUM",
                                 [new_tx_count |-> new_tx_count - config.last_tx_count])
            ELSE checked
        counted ==
            IF new_tx_count > config.last_tx_count
            THEN [alerted EXCEPT !.config[address].last_tx_count = new_tx_count,
                                 !.peak[address] = Max(@, new_tx_count)]
            ELSE alerted
        screened == _check_for_anomalies(counted, address)
    IN  IF config.alert_on_new_counterparty
        THEN _check_for_new_counterparties(screened, address)
        ELSE screened

\* lines 136-144: the loop over the monitored addresses in the order of
\* the dict
RECURSIVE CheckEach(_, _)
CheckEach(m, addresses) ==
    IF addresses = <<>> THEN m
    ELSE CheckEach(IF m.config[Head(addresses)].is_active
                   THEN check_address(m, Head(addresses)) ELSE m,
                   Tail(addresses))

check_all_addresses(m) == CheckEach(m, m.keys)

----------------------------------------------------------------------------
(* The monitor at work: addresses are added, transactions of the address   *)
(* "a" arrive in its history, and the addresses are checked.               *)

MaxHistory == 6
MaxChecks == 2

MaxBurst == 5

\* the transactions that arrive after the history: one sent by "a" a minute
\* after the last, or a burst of transactions of no value received ten
\* seconds after each other
Arriving(history, sent) ==
    LET last == IF history = <<>> THEN 0 ELSE history[Len(history)].timestamp
    IN  IF sent
        THEN << [timestamp |-> last + 60, value |-> 1, from |-> "a", to |-> "x"] >>
        ELSE [i \in 1..MaxBurst |->
                [timestamp |-> last + 10 * i, value |-> 0, from |-> "y", to |-> "a"]]

\* lines 42-52: RealTimeMonitor(); max_monitored is read from the environment
InitMonitor ==
    /\ txlist = <<>>
    /\ root = "a"
    /\ order = SortedOrder
    /\ patterns = EmptyPatterns
    /\ summary = [total_transactions |-> 0, unique_senders |-> 0, unique_receivers |-> 0]
    /\ op = "none"
    /\ out = NoOut
    /\ entities = KNOWN_ENTITIES
    /\ dfs = NoDfs
    /\ \E max_monitored \in {1, 10} :
          monitor = [max_monitored |-> max_monitored, keys |-> <<>>, config |-> <<>>,
                     alerts |-> <<>>, transaction_history |-> [k \in {"a"} |-> <<>>],
                     checks |-> 0, peak |-> <<>>]

\* add_address with the default alerts, for new transactions, or with the
\* alerts for new counterparties instead
AddAddress ==
    /\ \E address \in {"a", "A", "b"}, alert_on_new_tx \in BOOLEAN :
          LET call == add_address(monitor, address, alert_on_new_tx, ~alert_on_new_tx)
          IN  monitor' = call.monitor /\ out' = call.returned
    /\ op' = "RealTimeMonitor"
    /\ UNCHANGED <<txlist, root, order, patterns, summary, entities, dfs>>

\* transactions of "a" are appended to its history
TxArrives ==
    /\ \E sent \in BOOLEAN :
          /\ Len(monitor.transaction_history["a"]) + Len(Arriving(<<>>, sent)) <= MaxHistory
          /\ monitor' = [monitor EXCEPT !.transaction_history["a"] =
                                           @ \o Arriving(@, sent)]
    /\ op' = "RealTimeMonitor"
    /\ UNCHANGED <<txlist, root, order, patterns, summary, entities, dfs, out>>

CheckAddress ==
    /\ monitor.checks < MaxChecks
    /\ \E address \in {"a", "A", "b"} : monitor' = check_address(monitor, address)
    /\ op' = "RealTimeMonitor"
    /\ out' = PyNone
    /\ UNCHANGED <<txlist, root, order, patterns, summary, entities, dfs>>

CheckAllAddresses ==
    /\ monitor.checks < MaxChecks
    /\ monitor' = check_all_addresses(monitor)
    /\ op' = "RealTimeMonitor"
    /\ out' = PyNone
    /\ UNCHANGED <<txlist, root, order, patterns, summary, entities, dfs>>

NextMonitor == AddAddress \/ TxArrives \/ CheckAddress \/ CheckAllAddresses

SpecMonitor == InitMonitor /\ [][NextMonitor]_vars

----------------------------------------------------------------------------
(* Claim on the monitor *)

\* the transactions the new_transaction alerts of an address have counted
AlertedCount(address) ==
    SumSeq(Comprehend([i \in 1..Len(monitor.alerts) |->
                          IF monitor.alerts[i].alert_type = "new_transaction"
                          THEN monitor.alerts[i].metadata.new_tx_count ELSE 0],
                      [i \in 1..Len(monitor.alerts) |->
                          /\ monitor.alerts[i].alert_type = "new_transaction"
                          /\ monitor.alerts[i].address = address]))

\* C30: for every monitored address (none is ever removed) the sum of
\* new_tx_count over its new_transaction alerts is at most the number of
\* transactions in its history, and last_tx_count is never below a value it
\* has had, also after add_address is called again for the address.
C30_CountedOnce ==
    \A address \in DOMAIN monitor.config :
        /\ AlertedCount(address) <= Len(HistoryOf(monitor, address))
        /\ monitor.config[address].last_tx_count >= monitor.peak[address]

====
